---------------------------- MODULE Spec2Model ----------------------------
(***************************************************************************)
(* CryptoTwin1: the IFC graph extraction engine with its fallback chain    *)
(* (services/ifc_processor.py), the blockchain export and validation       *)
(* engine (services/blockchain_service.py) and the minting workflow        *)
(* (ui/blockchain_ui.py).                                                  *)
(*                                                                         *)
(* Six specifications share this module:                                   *)
(*   SpecProc     one run of IFCProcessorService.process_ifc_file          *)
(*   SpecValidate validate_export_data applied to bounded node/edge lists  *)
(*   SpecExport   the graph store and export_building_for_minting          *)
(*   SpecReexport successive export calls while the store grows            *)
(*   SpecMint     the graph store and the runs of render_minting_interface *)
(*   SpecFn       the pure functions of the two engines, each applied to   *)
(*                bounded arguments                                        *)
(*                                                                         *)
(* Python strings are sequences of one-character strings, except in the    *)
(* log/result messages, where a literal fragment of an f-string is kept as *)
(* a single element.  Python values held in dictionaries are the tagged    *)
(* records built by PyStr, PyInt, PyFloat and PyNone.                      *)
(***************************************************************************)
EXTENDS Integers, Sequences, FiniteSets, TLC

VARIABLES
    \* ---- process_ifc_file (SpecProc) ----
    pc,            \* position of the run: "validate", "s1".."s4", "finish", "done"
    file_path,     \* argument file_path (final path component)
    file_exists,   \* Path(file_path).exists()
    cfg_types,     \* config.include_types
    context,       \* IFCProcessingContext
    requests,      \* the Graph.ByIFCPath calls made so far, in order
    outcomes,      \* what each strategy attempt did, in order (history)
    fb_graph,      \* value returned by _process_with_fallbacks (NoGraph = None)
    returned,      \* the tuple returned by process_ifc_file
    \* ---- validate_export_data (SpecValidate) ----
    v_nodes,       \* argument nodes
    v_edges,       \* argument edges
    v_result,      \* the returned (is_valid, error_messages), or that it raised
    \* ---- the graph store and export_building_for_minting (SpecExport) ----
    is_available,  \* KuzuService.is_available, settled when the service is built
    store_elems,   \* the IfcElement rows of the file (indices into StoreCatalog)
    store_rels,    \* the TopologicalConnection rows of the file, in query order
    store_tokens,  \* the elements whose row carries a synced token_id
    store_building, \* what _store_building_record returned to store_graph
    exp_args,      \* arguments of the last export call and the store's behaviour
    exp_result,    \* what the last export call returned
    \* ---- the minting workflow (SpecMint) ----
    ui,            \* the current script run of render_minting_interface
    submission,    \* the call of Web3Service.mint_building_graph made by the run
    mint_data,     \* what prepare_batch_mint_data returned to its caller
    minted_buildings,  \* the keys of st.session_state.minted_buildings
    \* ---- the pure functions (SpecFn) ----
    fn_args,       \* the function called and its arguments
    fn_result,     \* what the call returned, once it has
    \* ---- successive exports (SpecReexport) ----
    last_export    \* the latest export call, and whether the store changed since

procVars == <<pc, file_path, file_exists, cfg_types, context, requests,
              outcomes, fb_graph, returned>>

valVars == <<v_nodes, v_edges, v_result>>

storeVars == <<is_available, store_elems, store_rels, store_tokens, store_building>>

expVars == <<exp_args, exp_result>>

uiVars == <<ui, submission, mint_data, minted_buildings>>

fnVars == <<fn_args, fn_result>>

callVars == <<last_export>>

vars == <<procVars, valVars, storeVars, expVars, uiVars, fnVars, callVars>>

-----------------------------------------------------------------------------
(* Bounds *)

\* the geometry engine returns graphs of 0..MaxEngineVertices vertices
MaxEngineVertices == 2

\* validate_export_data is applied to node and edge lists of at most this
\* many entries together
MaxValItems == 3

\* the store holds at most this many relationships for the file
MaxRels == 2

\* and at most this many while the minting workflow is followed
MaxMintRels == 1

-----------------------------------------------------------------------------
(* Python strings and values *)

Uppers == <<"A","B","C","D","E","F","G","H","I","J","K","L","M",
            "N","O","P","Q","R","S","T","U","V","W","X","Y","Z">>
Lowers == <<"a","b","c","d","e","f","g","h","i","j","k","l","m",
            "n","o","p","q","r","s","t","u","v","w","x","y","z">>

\* str.lower() on one character
LowerChar(c) ==
    IF \E i \in 1..26 : Uppers[i] = c
    THEN Lowers[CHOOSE i \in 1..26 : Uppers[i] = c]
    ELSE c

\* str.lower()
Lower(s) == [i \in 1..Len(s) |-> LowerChar(s[i])]

\* needle in hay  (substring test; also "fragment sequence occurs in message")
Contains(hay, needle) ==
    \E i \in 0..(Len(hay) - Len(needle)) :
        \A j \in 1..Len(needle) : hay[i + j] = needle[j]

PyNone     == [t |-> "none",  s |-> <<>>, n |-> 0]
PyStr(s)   == [t |-> "str",   s |-> s,    n |-> 0]
PyInt(n)   == [t |-> "int",   s |-> <<>>, n |-> n]
PyFloat(n) == [t |-> "float", s |-> <<>>, n |-> n]
PyBool(b)  == [t |-> "bool",  s |-> <<>>, n |-> IF b THEN 1 ELSE 0]
\* a list of strings is kept by the characters of its elements
PyList(l)  == [t |-> "list",  s |-> l,    n |-> 0]

\* bool(v)
Truthy(v) ==
    CASE v.t = "none"            -> FALSE
      [] v.t \in {"str", "list"} -> v.s # <<>>
      [] OTHER                   -> v.n # 0

\* isinstance(v, int); bool is a subclass of int
IsInt(v) == v.t \in {"int", "bool"}

\* hash(v) raises TypeError
Unhashable(v) == v.t = "list"

\* dict.get(key) with the default None
Get(d, key) == IF key \in DOMAIN d THEN d[key] ELSE PyNone

-----------------------------------------------------------------------------
(* TopologicVertex / TopologicGraph  (models/topologic_models.py) *)

type_keys == <<"IFC_type", "ifc_type", "IFCType", "type", "Entity">>
guid_keys == <<"IFC_global_id", "ifc_guid", "IFCGuid", "IFC_GUID", "GlobalId", "guid">>
name_keys == <<"Name", "name", "IFC_name">>

\* variant: the loop has no break, so the last alias present wins
M_FirstAlias_no_break(dictionaries, keys, old) ==
    IF \E i \in 1..Len(keys) : keys[i] \in DOMAIN dictionaries
    THEN dictionaries[keys[CHOOSE i \in 1..Len(keys) :
                          /\ keys[i] \in DOMAIN dictionaries
                          /\ \A j \in (i+1)..Len(keys) : keys[j] \notin DOMAIN dictionaries]]
    ELSE old

\* the for/if/break loop of extract_ifc_metadata: the value under the first
\* key of keys present in dictionaries; the field keeps its old value if none is
FirstAlias(dictionaries, keys, old) ==
    IF \E i \in 1..Len(keys) : keys[i] \in DOMAIN dictionaries
    THEN dictionaries[keys[CHOOSE i \in 1..Len(keys) :
                          /\ keys[i] \in DOMAIN dictionaries
                          /\ \A j \in 1..(i-1) : keys[j] \notin DOMAIN dictionaries]]
    ELSE old

extract_ifc_metadata(v) ==
    [v EXCEPT !.ifc_type = FirstAlias(v.dictionaries, type_keys, v.ifc_type),
              !.ifc_guid = FirstAlias(v.dictionaries, guid_keys, v.ifc_guid),
              !.ifc_name = FirstAlias(v.dictionaries, name_keys, v.ifc_name)]

\* TopologicVertex(coordinates=..., dictionaries=...)
TopologicVertex(id, coordinates, dictionaries) ==
    [id |-> id, coordinates |-> coordinates, dictionaries |-> dictionaries,
     ifc_type |-> PyNone, ifc_guid |-> PyNone, ifc_name |-> PyNone]

\* TopologicGraph()
EmptyTopologicGraph ==
    [vertices |-> <<>>, edges |-> <<>>, source_file |-> <<>>,
     processing_method |-> "", vertex_count |-> 0, edge_count |-> 0,
     ifc_type_counts |-> <<>>]

\* the ifc types counted by update_statistics, in first-seen order
RECURSIVE CountedTypes(_)
CountedTypes(vs) ==
    IF vs = <<>> THEN <<>>
    ELSE LET rest == CountedTypes(SubSeq(vs, 1, Len(vs) - 1))
             ty   == vs[Len(vs)].ifc_type
         IN  IF Truthy(ty) /\ ~ \E i \in 1..Len(rest) : rest[i] = ty
             THEN Append(rest, ty) ELSE rest

update_statistics(g) ==
    [g EXCEPT !.vertex_count = Len(g.vertices),
              !.edge_count = Len(g.edges),
              !.ifc_type_counts =
                  LET tys == CountedTypes(g.vertices)
                  IN  [i \in 1..Len(tys) |->
                         [key |-> tys[i],
                          count |-> Cardinality({j \in 1..Len(g.vertices) :
                                                 g.vertices[j].ifc_type = tys[i]})]]]

-----------------------------------------------------------------------------
(* The geometry engine (topologicpy), an external collaborator.            *)
(* Coordinates are integers in units of 1e-7, so that the matching         *)
(* tolerance 1e-6 of _coordinates_match is CoordTolerance units.           *)

CoordTolerance == 10
CoordStep == 1000

Chars_IfcWall  == <<"I","f","c","W","a","l","l">>
Chars_IfcSpace == <<"I","f","c","S","p","a","c","e">>
Chars_guid     == <<"g","u","i","d">>
Chars_elem     == <<"e","l","e","m">>

\* dictionary the engine attaches to its i-th vertex when dictionaries are
\* transferred; the second vertex carries no name
EngineDict(i) ==
    IF i = 1
    THEN [IFC_type |-> PyStr(Chars_IfcWall), IFC_global_id |-> PyStr(Chars_guid),
          Name |-> PyStr(Chars_elem)]
    ELSE [IFC_type |-> PyStr(Chars_IfcSpace), IFC_global_id |-> PyStr(Chars_guid)]

NoDict == [k \in {} |-> PyNone]

\* an engine-native graph: n vertices on a line, consecutive ones joined by an
\* edge; fault names the accessor, if any, that raises on this graph
EngineGraph(n, dicts, fault) ==
    [verts |-> [i \in 1..n |->
                  [coords |-> <<i * CoordStep, 0, 0>>,
                   dict   |-> IF dicts THEN EngineDict(i) ELSE NoDict]],
     edges |-> [i \in 1..(IF n > 0 THEN n - 1 ELSE 0) |->
                  [a |-> <<i * CoordStep, 0, 0>>,
                   b |-> <<(i + 1) * CoordStep, 0, 0>>,
                   dict |-> IF dicts THEN [connection_type |-> PyStr(<<"a","d","j">>)]
                            ELSE NoDict]],
     fault |-> fault]

\* the graph with one more edge, listed first, whose start lies at the origin,
\* where the graph has no vertex
WithStrayEdge(g) ==
    [g EXCEPT !.edges = <<[a |-> <<0, 0, 0>>, b |-> <<CoordStep, 0, 0>>, dict |-> NoDict]>> \o @]

\* the graph with one more vertex, listed last, 0.9e-6 away from the vertex
\* before it on each axis, and one more edge, from the new vertex to the
\* first vertex
WithCloseVertex(g) ==
    LET near == g.verts[Len(g.verts)].coords
        c    == <<near[1] + 9, near[2] + 9, near[3] + 9>>
    IN  [g EXCEPT !.verts = Append(@, [coords |-> c, dict |-> NoDict]),
                  !.edges = Append(@, [a |-> c, b |-> g.verts[1].coords, dict |-> NoDict])]

EngineErrors == { <<"engine error A">>, <<"engine error B">> }

\* what one call of Graph.ByIFCPath can do: raise, return None, return a graph
EngineOutcomes(dicts) ==
    { [kind |-> "raise", err |-> e, g |-> EngineGraph(0, FALSE, "none")] :
          e \in EngineErrors }
    \cup { [kind |-> "none", err |-> <<>>, g |-> EngineGraph(0, FALSE, "none")] }
    \cup { [kind |-> "graph", err |-> <<>>, g |-> EngineGraph(n, dicts, f)] :
          n \in 0..MaxEngineVertices, f \in {"none", "vertices", "edges"} }
    \cup { [kind |-> "graph", err |-> <<>>, g |-> WithStrayEdge(EngineGraph(n, dicts, "none"))] :
          n \in 1..MaxEngineVertices }
    \cup { [kind |-> "graph", err |-> <<>>, g |-> WithCloseVertex(EngineGraph(n, dicts, "none"))] :
          n \in 1..MaxEngineVertices }

\* the includeTypes argument of Graph.ByIFCPath: a list or None
TypesArg(list) == [is_none |-> list = <<>>, types |-> list]
TypesNone == TypesArg(<<>>)

Request(types, dicts) == [includeTypes |-> types, transferDictionaries |-> dicts]

-----------------------------------------------------------------------------
(* IFCProcessorService  (services/ifc_processor.py) *)

default_ifc_types ==
    <<"IfcWall", "IfcSlab", "IfcBeam", "IfcColumn", "IfcDoor", "IfcWindow",
      "IfcSpace", "IfcRoom", "IfcBuildingStorey", "IfcBuilding">>

\* Path(file_path).suffix of the final path component
Suffix(name) ==
    LET dots == {i \in 1..Len(name) : name[i] = "."}
    IN  IF dots = {} THEN <<>>
        ELSE LET i == CHOOSE d \in dots : \A e \in dots : e <= d
             IN  IF 1 < i /\ i < Len(name) THEN SubSeq(name, i, Len(name)) ELSE <<>>

\* variant: the extension test is left out
M_validate_exists_only(path, exists) == exists

_validate_ifc_file(path, exists) ==
    exists /\ Lower(Suffix(path)) = <<".","i","f","c">>

Abs(x) == IF x < 0 THEN -x ELSE x

\* Python floats are IEEE doubles.  A coordinate is a decimal number u / 10^7,
\* held as the integer u; the float the program holds is the double nearest
\* to it.  The operators below work out, in integers, on which side of an
\* exact decimal result the float computation of the program falls.
UnitsPerOne == 1000 * 10000

\* floor(log2(num / den)), for positive num and den
RECURSIVE FloorLog2(_, _)
FloorLog2(num, den) ==
    IF num \div 2 >= den THEN FloorLog2(num, 2 * den) + 1
    ELSE IF num < den THEN FloorLog2(2 * num, den) - 1
    ELSE 0

\* (r * 2^k) % m for r < m, seven doublings at a time
RECURSIVE DoubledMod(_, _, _)
DoubledMod(r, k, m) ==
    IF k = 0 THEN r % m
    ELSE IF k >= 7 THEN DoubledMod((128 * r) % m, k - 7, m)
    ELSE DoubledMod((2 * r) % m, k - 1, m)

\* the double nearest to u / den is mant / 2^BinaryPlaces(u, den), with
\* 2^52 <= mant < 2^53  (u > 0)
BinaryPlaces(u, den) == 52 - FloorLog2(u, den)

\* den * mant - u * 2^BinaryPlaces(u, den): the distance of that double from
\* u / den, in units of 1 / (den * 2^BinaryPlaces(u, den)); mant is
\* u * 2^places / den rounded to the nearest integer
RoundingError(u, den) ==
    LET r == DoubledMod(u % den, BinaryPlaces(u, den), den)
    IN  IF 2 * r < den THEN -r ELSE den - r

\* abs(a - b) < 1e-6 in doubles, for a and b exactly the tolerance apart as
\* decimals.  With hi > lo >= tolerance the subtraction is exact, and the
\* difference is compared with the double nearest 1e-6; nearer to zero the
\* difference is rounded to a multiple of 2^-(places of 1e-6), and it comes
\* out below the tolerance when it lies below the midpoint under it
DifferenceBelowTolerance(a, b) ==
    LET top    == IF a > b THEN a ELSE b
        bottom == IF a > b THEN b ELSE a
        hi     == IF top <= -CoordTolerance THEN -bottom ELSE top
        lo     == IF top <= -CoordTolerance THEN -top ELSE bottom
        kT     == BinaryPlaces(CoordTolerance, UnitsPerOne)
        dT     == RoundingError(CoordTolerance, UnitsPerOne)
        Places(u) == BinaryPlaces(Abs(u), UnitsPerOne)
        Error(u)  == IF u = 0 THEN 0
                     ELSE IF u > 0 THEN RoundingError(u, UnitsPerOne)
                     ELSE -RoundingError(-u, UnitsPerOne)
    IN  IF lo >= CoordTolerance
        THEN Error(hi) * 2^(Places(lo) - Places(hi)) - Error(lo)
                 <= (dT - 1) \div 2^(kT - Places(lo))
        ELSE LET Scaled(u) == IF u = 0 THEN 0 ELSE Error(u) * 2^(kT + 4 - Places(u))
             IN  Scaled(hi) - Scaled(lo) - 2^4 * dT + 2^3 * UnitsPerOne < 0

\* variant: the distance between the points is compared with the tolerance
M_coordinates_match_euclidean(c1, c2) ==
    (c1[1] - c2[1]) * (c1[1] - c2[1]) + (c1[2] - c2[2]) * (c1[2] - c2[2])
        + (c1[3] - c2[3]) * (c1[3] - c2[3]) < CoordTolerance * CoordTolerance

\* all(abs(a - b) < tolerance for a, b in zip(coord1, coord2)); two decimals
\* less than the tolerance apart are so as doubles, two that are further
\* apart are not, and at exactly the tolerance the rounding decides
_coordinates_match(c1, c2) ==
    \A k \in 1..3 :
        \/ Abs(c1[k] - c2[k]) < CoordTolerance
        \/ /\ Abs(c1[k] - c2[k]) = CoordTolerance
           /\ DifferenceBelowTolerance(c1[k], c2[k])

\* variant: a target that matches no vertex is taken for the first vertex
M_find_vertex_index_default_first(target, vertices) ==
    IF \E i \in 1..Len(vertices) : _coordinates_match(vertices[i].coordinates, target)
    THEN CHOOSE i \in 1..Len(vertices) :
            /\ _coordinates_match(vertices[i].coordinates, target)
            /\ \A j \in 1..(i-1) : ~ _coordinates_match(vertices[j].coordinates, target)
    ELSE IF vertices = <<>> THEN 0 ELSE 1

\* index of the first vertex matching the target's coordinates, 0 for None
_find_vertex_index(target, vertices) ==
    IF \E i \in 1..Len(vertices) : _coordinates_match(vertices[i].coordinates, target)
    THEN CHOOSE i \in 1..Len(vertices) :
            /\ _coordinates_match(vertices[i].coordinates, target)
            /\ \A j \in 1..(i-1) : ~ _coordinates_match(vertices[j].coordinates, target)
    ELSE 0

\* uuid4 identifiers: fresh per attempt (k) and per object (kind, i)
FreshId(kind, k, i) == [kind |-> kind, k |-> k, i |-> i]

_extract_vertices(h, k) ==
    [i \in 1..Len(h.verts) |->
        extract_ifc_metadata(
            TopologicVertex(FreshId("vertex", k, i), h.verts[i].coords, h.verts[i].dict))]

extract_connection_metadata(e) ==
    [e EXCEPT !.connection_type = IF "connection_type" \in DOMAIN e.dictionaries
                                  THEN e.dictionaries["connection_type"] ELSE @,
              !.edge_type = IF "edge_type" \in DOMAIN e.dictionaries
                            THEN e.dictionaries["edge_type"] ELSE @,
              !.shared_geometry = IF "shared_geometry" \in DOMAIN e.dictionaries
                                  THEN e.dictionaries["shared_geometry"] ELSE @]

TopologicEdge(id, s, e, dictionaries) ==
    [id |-> id, start_vertex_id |-> s, end_vertex_id |-> e,
     dictionaries |-> dictionaries, edge_type |-> PyNone,
     connection_type |-> PyNone, shared_geometry |-> PyNone]

RECURSIVE ExtractEdgesFrom(_, _, _, _)
ExtractEdgesFrom(es, i, vertices, k) ==
    IF i > Len(es) THEN <<>>
    ELSE LET start_idx == _find_vertex_index(es[i].a, vertices)
             end_idx   == _find_vertex_index(es[i].b, vertices)
             rest      == ExtractEdgesFrom(es, i + 1, vertices, k)
         IN  IF start_idx # 0 /\ end_idx # 0
             THEN <<extract_connection_metadata(
                      TopologicEdge(FreshId("edge", k, i), vertices[start_idx].id,
                                    vertices[end_idx].id, es[i].dict))>> \o rest
             ELSE rest

\* Graph.Edges raising is caught: the graph is kept without edges
_extract_edges(h, vertices, k) ==
    IF h.fault = "edges" THEN <<>> ELSE ExtractEdgesFrom(h.edges, 1, vertices, k)

NoHandle == [some |-> FALSE, h |-> EngineGraph(0, FALSE, "none")]
SomeHandle(h) == [some |-> TRUE, h |-> h]

NoGraph == [some |-> FALSE, g |-> EmptyTopologicGraph]
SomeGraph(g) == [some |-> TRUE, g |-> g]

\* outcome of a strategy function: the requests it made, whether it raised
\* (and str(e)), the graph it returned and the context it leaves
StrategyResult(reqs, raised, msg, graph, ctx) ==
    [reqs |-> reqs, raised |-> raised, msg |-> msg, graph |-> graph, ctx |-> ctx]

_extract_graph_data(h, ctx, reqs, path) ==
    LET ctx1 == [ctx EXCEPT !.original_topologic_graph = SomeHandle(h)]
        k    == Len(ctx.attempted_methods)
    IN  IF h.fault = "vertices"
        THEN StrategyResult(reqs, TRUE, <<"Graph.Vertices failed">>, NoGraph, ctx1)
        ELSE LET vertices == _extract_vertices(h, k)
                 edges    == _extract_edges(h, vertices, k)
             IN  StrategyResult(reqs, FALSE, <<>>,
                    SomeGraph(update_statistics(
                        [EmptyTopologicGraph EXCEPT
                            !.vertices = vertices, !.edges = edges,
                            !.source_file = path,
                            !.processing_method = ctx.current_method])),
                    ctx1)

_process_direct_with_dictionaries(ctx, path, o1, o2) ==
    LET r1 == Request(TypesArg(ctx.include_types), TRUE)
        r2 == Request(TypesNone, TRUE)
    IN  CASE o1.kind = "raise" ->
               StrategyResult(<<r1>>, TRUE,
                   <<"Graph.ByIFCPath failed with exception: ">> \o o1.err, NoGraph, ctx)
          [] o1.kind = "graph" -> _extract_graph_data(o1.g, ctx, <<r1>>, path)
          [] o1.kind = "none" /\ o2.kind = "raise" ->
               StrategyResult(<<r1, r2>>, TRUE,
                   <<"Graph.ByIFCPath fallback failed: ">> \o o2.err, NoGraph, ctx)
          [] o1.kind = "none" /\ o2.kind = "none" ->
               StrategyResult(<<r1, r2>>, TRUE,
                   <<"Graph.ByIFCPath returned None even without type filtering. File may be corrupted or unsupported: ">>
                       \o path, NoGraph, ctx)
          [] o1.kind = "none" /\ o2.kind = "graph" ->
               _extract_graph_data(o2.g, ctx, <<r1, r2>>, path)

\* the three single-request strategies share one shape
SingleRequest(ctx, path, req, o, none_msg) ==
    CASE o.kind = "raise" -> StrategyResult(<<req>>, TRUE, o.err, NoGraph, ctx)
      [] o.kind = "none"  -> StrategyResult(<<req>>, TRUE, none_msg, NoGraph, ctx)
      [] o.kind = "graph" -> _extract_graph_data(o.g, ctx, <<req>>, path)

_process_direct_without_dictionaries(ctx, path, o) ==
    SingleRequest(ctx, path, Request(TypesArg(ctx.include_types), FALSE), o,
                  <<"Graph.ByIFCPath without dictionaries returned None">>)

_process_traditional_with_types(ctx, path, o) ==
    SingleRequest(ctx, path,
                  Request(TypesArg(IF ctx.include_types # <<>> THEN ctx.include_types
                                   ELSE default_ifc_types), TRUE), o,
                  <<"Traditional processing with types failed">>)

_process_traditional_fallback(ctx, path, o) ==
    SingleRequest(ctx, path, Request(TypesNone, FALSE), o,
                  <<"All fallback methods failed">>)

\* IFCProcessingContext.add_error
add_error(ctx, message) ==
    [ctx EXCEPT !.error_messages = Append(@, message)]

\* IFCProcessingContext(...) followed by start_processing()
NewContext(types) ==
    [include_types |-> types, current_status |-> "processing",
     error_messages |-> <<>>, attempted_methods |-> <<>>,
     current_method |-> "", original_topologic_graph |-> NoHandle]

NotReturned ==
    [graph |-> EmptyTopologicGraph,
     result |-> [success |-> FALSE, message |-> <<>>, error_details |-> <<>>,
                 has_stats |-> FALSE],
     handle |-> NoHandle]

\* variant: the failure result hands back what the run had stored so far
M_FailWith_partial(e) ==
    /\ context' = [add_error(context, e) EXCEPT !.current_status = "failed"]
    /\ returned' = [graph |-> fb_graph.g,
                    result |-> [success |-> FALSE,
                                message |-> <<"Failed to process IFC file: ">> \o e,
                                error_details |-> e, has_stats |-> FALSE],
                    handle |-> context.original_topologic_graph]
    /\ pc' = "done"

\* the except branch of process_ifc_file: e is str(e)
FailWith(e) ==
    /\ context' = [add_error(context, e) EXCEPT !.current_status = "failed"]
    /\ returned' = [graph |-> EmptyTopologicGraph,
                    result |-> [success |-> FALSE,
                                message |-> <<"Failed to process IFC file: ">> \o e,
                                error_details |-> e, has_stats |-> FALSE],
                    handle |-> NoHandle]
    /\ pc' = "done"

-----------------------------------------------------------------------------
(* SpecProc: one run of process_ifc_file *)

FilePaths ==
    { <<"a",".","i","f","c">>, <<"A",".","I","F","C">>, <<"a",".","I","f","c">>,
      <<"a",".","t","x","t">>, <<".","i","f","c">>, <<"a">>, <<"a",".","i","f","c",".">> }

ConfigTypes == { <<>>, <<"IfcWall">>, <<"IfcWall", "IfcDoor">> }

\* the other specifications leave these variables at rest
ValIdle ==
    /\ v_nodes = <<>>
    /\ v_edges = <<>>
    /\ v_result = [done |-> FALSE, raised |-> FALSE, valid |-> FALSE, errors |-> <<>>]

NoFault == [kind |-> "none", after |-> 0]

\* no export call has returned since the store last changed
NoCall == [called |-> FALSE, include_types |-> <<>>, fault |-> NoFault]

NoExport == [nodes |-> <<>>, edges |-> <<>>]

\* no export call has been made yet
NoEarlierExport ==
    [some |-> FALSE, include_types |-> <<>>, fault |-> NoFault, result |-> NoExport,
     stale |-> FALSE]

ExpIdle ==
    /\ exp_args = NoCall
    /\ exp_result = NoExport

StoreIdle ==
    /\ is_available = TRUE
    /\ store_elems = {}
    /\ store_rels = <<>>
    /\ store_tokens = {}
    /\ store_building = PyNone

\* a script run that has not started yet.  pending holds the arguments of
\* the st.error calls the current step has still to make, next the place
\* the run goes on from after the last of them
NewRun ==
    [pc |-> "select", nodes |-> <<>>, edges |-> <<>>,
     validation |-> [valid |-> FALSE, errors |-> <<>>],
     validated |-> <<>>, shown |-> <<>>, pending |-> <<>>, next |-> "select"]

NoSubmission ==
    [called |-> FALSE, nodes |-> <<>>, edges |-> <<>>, raised |-> FALSE,
     node_tuples |-> <<>>, edge_tuples |-> <<>>, sent |-> FALSE,
     receipt |-> "none", error_details_saved |-> FALSE]

NoMintData ==
    [prepared |-> FALSE, raised |-> FALSE, fileId |-> <<>>, nodes |-> <<>>,
     edges |-> <<>>, nodeCount |-> 0, edgeCount |-> 0]

UiIdle ==
    /\ ui = NewRun
    /\ submission = NoSubmission
    /\ mint_data = NoMintData
    /\ minted_buildings = {}

\* no function call is being made
NoArgs == [fn |-> "none"]

NotCalled == [done |-> FALSE]

FnIdle ==
    /\ fn_args = NoArgs
    /\ fn_result = NotCalled
    /\ last_export = NoEarlierExport

InitProc ==
    /\ ValIdle
    /\ StoreIdle
    /\ ExpIdle
    /\ UiIdle
    /\ FnIdle
    /\ pc = "validate"
    /\ file_path \in FilePaths
    /\ file_exists \in BOOLEAN
    /\ cfg_types \in ConfigTypes
    /\ context = NewContext(cfg_types)
    /\ requests = <<>>
    /\ outcomes = <<>>
    /\ fb_graph = NoGraph
    /\ returned = NotReturned

\* lines 86-92: validate the file, then enter the fallback chain
ValidateFile ==
    /\ pc = "validate"
    /\ IF _validate_ifc_file(file_path, file_exists)
       THEN /\ pc' = "s1"
            /\ UNCHANGED <<context, returned>>
       ELSE FailWith(<<"Invalid IFC file: ">> \o file_path)
    /\ UNCHANGED <<file_path, file_exists, cfg_types, requests, outcomes, fb_graph>>

\* variant: any returned graph, even one without vertices, ends the chain
M_AfterStrategy_any_graph(strategy_name, r, next_pc) ==
    /\ requests' = requests \o r.reqs
    /\ IF r.raised
       THEN /\ context' = add_error(r.ctx, <<strategy_name, ": ">> \o r.msg)
            /\ outcomes' = Append(outcomes, [name |-> strategy_name, kind |-> "raised",
                                             nverts |-> 0, msg |-> r.msg])
            /\ pc' = next_pc
            /\ UNCHANGED fb_graph
       ELSE /\ context' = r.ctx
            /\ outcomes' = Append(outcomes, [name |-> strategy_name,
                                             kind |-> "returned",
                                             nverts |-> Len(r.graph.g.vertices),
                                             msg |-> <<>>])
            /\ pc' = "finish" /\ fb_graph' = r.graph
    /\ UNCHANGED <<file_path, file_exists, cfg_types, returned>>

\* one iteration of the for loop of _process_with_fallbacks (lines 132-149);
\* r is the strategy function's result on the context prepared at 137-138
AfterStrategy(strategy_name, r, next_pc) ==
    /\ requests' = requests \o r.reqs
    /\ IF r.raised
       THEN /\ context' = add_error(r.ctx, <<strategy_name, ": ">> \o r.msg)
            /\ outcomes' = Append(outcomes, [name |-> strategy_name, kind |-> "raised",
                                             nverts |-> 0, msg |-> r.msg])
            /\ pc' = next_pc
            /\ UNCHANGED fb_graph
       ELSE /\ context' = r.ctx
            /\ outcomes' = Append(outcomes, [name |-> strategy_name,
                                             kind |-> "returned",
                                             nverts |-> Len(r.graph.g.vertices),
                                             msg |-> <<>>])
            /\ IF Len(r.graph.g.vertices) > 0
               THEN pc' = "finish" /\ fb_graph' = r.graph
               ELSE pc' = next_pc /\ UNCHANGED fb_graph
    /\ UNCHANGED <<file_path, file_exists, cfg_types, returned>>

\* lines 133-134: a strategy already attempted is skipped
SkipStrategy(next_pc) ==
    /\ pc' = next_pc
    /\ UNCHANGED <<file_path, file_exists, cfg_types, context, requests, outcomes,
                   fb_graph, returned>>

\* variant: current_method is not updated when a strategy is entered
M_Entered_keep_method(strategy_name) ==
    [context EXCEPT !.attempted_methods = Append(@, strategy_name)]

\* lines 137-138
Entered(strategy_name) ==
    [context EXCEPT !.attempted_methods = Append(@, strategy_name),
                    !.current_method = strategy_name]

Seen(strategy_name) ==
    \E i \in 1..Len(context.attempted_methods) :
        context.attempted_methods[i] = strategy_name

AttemptDirectWithDictionaries ==
    /\ pc = "s1"
    /\ IF Seen("direct_with_dictionaries") THEN SkipStrategy("s2")
       ELSE \E o1 \in EngineOutcomes(TRUE), o2 \in EngineOutcomes(TRUE) :
              AfterStrategy("direct_with_dictionaries",
                  _process_direct_with_dictionaries(
                      Entered("direct_with_dictionaries"), file_path, o1, o2), "s2")

AttemptDirectWithoutDictionaries ==
    /\ pc = "s2"
    /\ IF Seen("direct_without_dictionaries") THEN SkipStrategy("s3")
       ELSE \E o \in EngineOutcomes(FALSE) :
              AfterStrategy("direct_without_dictionaries",
                  _process_direct_without_dictionaries(
                      Entered("direct_without_dictionaries"), file_path, o), "s3")

AttemptTraditionalWithTypes ==
    /\ pc = "s3"
    /\ IF Seen("traditional_with_types") THEN SkipStrategy("s4")
       ELSE \E o \in EngineOutcomes(TRUE) :
              AfterStrategy("traditional_with_types",
                  _process_traditional_with_types(
                      Entered("traditional_with_types"), file_path, o), "s4")

\* after the last strategy the loop ends and line 151 returns None
AttemptTraditionalFallback ==
    /\ pc = "s4"
    /\ IF Seen("traditional_fallback") THEN SkipStrategy("finish")
       ELSE \E o \in EngineOutcomes(FALSE) :
              AfterStrategy("traditional_fallback",
                  _process_traditional_fallback(
                      Entered("traditional_fallback"), file_path, o), "finish")

\* lines 94-117: build the result.  _calculate_stats reads the file size with
\* Path.stat(), which raises when the file has gone since validation; the
\* text of the FileNotFoundError ends with the repr of the path, in quotes.
Finish ==
    /\ pc = "finish"
    /\ IF fb_graph.some
       THEN \E stat_ok \in BOOLEAN :
              IF stat_ok
              THEN /\ context' = [context EXCEPT !.current_status = "completed"]
                   /\ returned' =
                        [graph |-> fb_graph.g,
                         result |-> [success |-> TRUE,
                                     message |-> <<"Successfully processed IFC file using ",
                                                   context.current_method>>,
                                     error_details |-> <<>>, has_stats |-> TRUE],
                         handle |-> context.original_topologic_graph]
                   /\ pc' = "done"
              ELSE FailWith(<<"[Errno 2] No such file or directory: '">> \o file_path \o <<"'">>)
       ELSE FailWith(<<"All processing methods failed">>)
    /\ UNCHANGED <<file_path, file_exists, cfg_types, requests, outcomes, fb_graph>>

NextProc ==
    \/ ValidateFile /\ UNCHANGED <<callVars, valVars, storeVars, expVars, uiVars, fnVars>>
    \/ AttemptDirectWithDictionaries /\ UNCHANGED <<callVars, valVars, storeVars, expVars, uiVars, fnVars>>
    \/ AttemptDirectWithoutDictionaries /\ UNCHANGED <<callVars, valVars, storeVars, expVars, uiVars, fnVars>>
    \/ AttemptTraditionalWithTypes /\ UNCHANGED <<callVars, valVars, storeVars, expVars, uiVars, fnVars>>
    \/ AttemptTraditionalFallback /\ UNCHANGED <<callVars, valVars, storeVars, expVars, uiVars, fnVars>>
    \/ Finish /\ UNCHANGED <<callVars, valVars, storeVars, expVars, uiVars, fnVars>>

SpecProc == InitProc /\ [][NextProc]_vars

-----------------------------------------------------------------------------
(* Properties of process_ifc_file *)

StrategyNames ==
    <<"direct_with_dictionaries", "direct_without_dictionaries",
      "traditional_with_types", "traditional_fallback">>

\* a strategy attempt failed: it raised or returned a graph without vertices
AttemptFailed(o) == o.kind = "raised" \/ o.nverts = 0

PathValid == _validate_ifc_file(file_path, file_exists)

\* the path ends in ".ifc", compared case-insensitively
EndsInIfc(path) ==
    /\ Len(path) >= 4
    /\ Lower(SubSeq(path, Len(path) - 3, Len(path))) = <<".","i","f","c">>

\* C1: the strategies are attempted in the fixed order, each at most once;
\* an attempt is made only after all earlier ones failed, and the chain
\* ends exactly after the first non-empty graph or after the fourth failure.
C1_StrategyOrder ==
    /\ Len(outcomes) <= 4
    /\ \A i \in 1..Len(outcomes) : outcomes[i].name = StrategyNames[i]
    /\ context.attempted_methods = [i \in 1..Len(outcomes) |-> outcomes[i].name]
    /\ \A i \in 1..(Len(outcomes) - 1) : AttemptFailed(outcomes[i])
    /\ (PathValid /\ pc \in {"finish", "done"}) =>
          /\ Len(outcomes) >= 1
          /\ Len(outcomes) = 4 \/ ~ AttemptFailed(outcomes[Len(outcomes)])
    /\ (pc \in {"s1", "s2", "s3", "s4"}) =>
          /\ pc = <<"s1", "s2", "s3", "s4">>[Len(outcomes) + 1]
          /\ \A i \in 1..Len(outcomes) : AttemptFailed(outcomes[i])

C1_Witness ==
    /\ pc = "done"
    /\ Len(outcomes) = 3
    /\ outcomes[1].kind = "raised"
    /\ outcomes[2].kind = "returned" /\ outcomes[2].nverts = 0
    /\ outcomes[3].nverts > 0

\* C2: the returned result is a success exactly when the returned graph has
\* a vertex; a failure returns an empty graph and no engine handle.
C2_SuccessIffVertices ==
    pc = "done" =>
        /\ returned.result.success <=> Len(returned.graph.vertices) >= 1
        /\ ~ returned.result.success =>
               /\ returned.graph.vertices = <<>>
               /\ returned.graph.edges = <<>>
               /\ ~ returned.handle.some

\* a run that fails after a strategy had extracted vertices and stored a handle
C2_Witness ==
    /\ pc = "done"
    /\ ~ returned.result.success
    /\ fb_graph.some /\ Len(fb_graph.g.vertices) >= 1
    /\ context.original_topologic_graph.some

\* C3 (as claimed): when all four strategies fail, error_details contains the
\* message of every strategy attempt that raised.
C3_AllStepErrorsInDetail ==
    (/\ pc = "done"
     /\ Len(outcomes) = 4
     /\ \A i \in 1..4 : AttemptFailed(outcomes[i]))
    => \A i \in 1..4 :
          outcomes[i].kind = "raised" =>
              Contains(returned.result.error_details, outcomes[i].msg)

\* C4: a path that does not exist or does not end in .ifc leads to no engine
\* request and no strategy attempt, and the run fails naming the file.
C4_InvalidPathFailsFast ==
    (~ file_exists \/ ~ EndsInIfc(file_path)) =>
        /\ requests = <<>>
        /\ outcomes = <<>>
        /\ context.attempted_methods = <<>>
        /\ pc \in {"validate", "done"}
        /\ pc = "done" =>
              /\ ~ returned.result.success
              /\ Contains(returned.result.message,
                          <<"Invalid IFC file: ">> \o file_path)

C4_Witness ==
    /\ pc = "done"
    /\ file_exists
    /\ ~ EndsInIfc(file_path)
    /\ ~ returned.result.success
    /\ requests = <<>>

\* C5: on success the graph's processing_method names the last strategy
\* attempted, which is the only one that returned a non-empty graph.
C5_MethodIsWinningStrategy ==
    (pc = "done" /\ returned.result.success) =>
        /\ Len(outcomes) >= 1
        /\ returned.graph.processing_method = outcomes[Len(outcomes)].name
        /\ \A i \in 1..Len(outcomes) :
              (outcomes[i].kind = "returned" /\ outcomes[i].nverts > 0)
                  <=> i = Len(outcomes)
        /\ Len(returned.graph.vertices) = outcomes[Len(outcomes)].nverts

\* strategies 1 and 2 return zero vertices, strategy 3 returns two
C5_Witness ==
    /\ pc = "done"
    /\ returned.result.success
    /\ Len(outcomes) = 3
    /\ outcomes[1].kind = "returned" /\ outcomes[2].kind = "returned"
    /\ Len(returned.graph.vertices) = 2
    /\ returned.graph.processing_method = "traditional_with_types"

-----------------------------------------------------------------------------
(* BlockchainExportService.validate_export_data                            *)
(* (services/blockchain_service.py).  An error message is kept as the      *)
(* fields of its f-string: kind, index, field name and quoted reference.   *)

Err(kind, idx, field, ref) == [kind |-> kind, idx |-> idx, field |-> field, ref |-> ref]

required_fields == <<"kuzuElementId", "ifcGuid", "ifcType", "name">>
coord_fields == <<"x", "y", "z">>

RECURSIVE Flatten(_)
Flatten(ss) == IF ss = <<>> THEN <<>> ELSE Head(ss) \o Flatten(Tail(ss))

\* lines 441-445: one error per required field that node.get(field) finds falsy
RequiredFieldErrors(idx, node) ==
    Flatten([k \in 1..Len(required_fields) |->
        IF ~ Truthy(Get(node, required_fields[k]))
        THEN <<Err("Missing required field", idx, required_fields[k], <<>>)>>
        ELSE <<>>])

\* lines 452-457
CoordinateErrors(idx, node) ==
    Flatten([k \in 1..Len(coord_fields) |->
        IF coord_fields[k] \notin DOMAIN node
        THEN <<Err("Missing coordinate", idx, coord_fields[k], <<>>)>>
        ELSE IF ~ IsInt(node[coord_fields[k]])
             THEN <<Err("Coordinate must be int256", idx, coord_fields[k], <<>>)>>
             ELSE <<>>])

\* lines 447-450: the ids collected during the node pass
KuzuIds(nodes) ==
    { Get(nodes[i], "kuzuElementId") : i \in
        { j \in 1..Len(nodes) : Truthy(Get(nodes[j], "kuzuElementId")) } }

\* lines 460-471
EdgeErrors(idx, edge, kuzu_ids) ==
    LET from_id == Get(edge, "fromKuzuId")
        to_id   == Get(edge, "toKuzuId")
    IN  (IF Truthy(from_id) /\ from_id \notin kuzu_ids
         THEN <<Err("not found in nodes", idx, "fromKuzuId", from_id.s)>> ELSE <<>>)
        \o
        (IF Truthy(to_id) /\ to_id \notin kuzu_ids
         THEN <<Err("not found in nodes", idx, "toKuzuId", to_id.s)>> ELSE <<>>)
        \o
        (IF ~ Truthy(Get(edge, "connectionType"))
         THEN <<Err("Missing connectionType", idx, "connectionType", <<>>)>> ELSE <<>>)

\* line 450: kuzu_ids.add(kuzu_id) hashes a truthy kuzuElementId
NodePassRaises(nodes) ==
    \E i \in 1..Len(nodes) :
        LET kuzu_id == Get(nodes[i], "kuzuElementId")
        IN  Truthy(kuzu_id) /\ Unhashable(kuzu_id)

\* lines 464, 467: "not in kuzu_ids" hashes a truthy endpoint reference
EdgePassRaises(edges) ==
    \E i \in 1..Len(edges) : \E key \in {"fromKuzuId", "toKuzuId"} :
        Truthy(Get(edges[i], key)) /\ Unhashable(Get(edges[i], key))

\* the result is (is_valid, errors), or raised if a TypeError left the call;
\* indexes in the messages are the 0-based positions of enumerate()
validate_export_data(nodes, edges) ==
    IF nodes = <<>>
    THEN [raised |-> FALSE, valid |-> FALSE,
          errors |-> <<Err("No nodes provided", 0, "", <<>>)>>]
    ELSE IF NodePassRaises(nodes) \/ EdgePassRaises(edges)
    THEN [raised |-> TRUE, valid |-> FALSE, errors |-> <<>>]
    ELSE LET errors == Flatten([i \in 1..Len(nodes) |->
                           RequiredFieldErrors(i - 1, nodes[i]) \o
                           CoordinateErrors(i - 1, nodes[i])])
                       \o Flatten([i \in 1..Len(edges) |->
                           EdgeErrors(i - 1, edges[i], KuzuIds(nodes))])
         IN  [raised |-> FALSE, valid |-> Len(errors) = 0, errors |-> errors]

-----------------------------------------------------------------------------
(* SpecValidate: validate_export_data on bounded node and edge lists *)

Chars_v1 == <<"v","1">>
Chars_v2 == <<"v","2">>
Chars_v9 == <<"v","9">>

\* dictionaries are built from parts with disjoint keys
Merge(f, g) == f @@ g

NodeIdParts ==
    { NoDict, [kuzuElementId |-> PyStr(<<>>)],
      [kuzuElementId |-> PyStr(Chars_v1)], [kuzuElementId |-> PyStr(Chars_v2)],
      [kuzuElementId |-> PyList(Chars_v1)] }

NodeRequiredParts ==
    { [ifcGuid |-> PyStr(Chars_guid), ifcType |-> PyStr(Chars_IfcWall),
       name |-> PyStr(Chars_elem)],
      [ifcType |-> PyStr(<<>>), name |-> PyNone] }

NodeCoordParts ==
    { [x |-> PyInt(0), y |-> PyInt(1500), z |-> PyInt(-3)],
      [x |-> PyFloat(1500), y |-> PyInt(0)] }

ValNodes ==
    { Merge(Merge(a, b), c) : a \in NodeIdParts, b \in NodeRequiredParts,
                              c \in NodeCoordParts }

EdgeFromParts == { NoDict, [fromKuzuId |-> PyStr(Chars_v1)], [fromKuzuId |-> PyStr(Chars_v9)] }
EdgeToParts   == { NoDict, [toKuzuId |-> PyStr(Chars_v2)], [toKuzuId |-> PyStr(Chars_v9)] }
EdgeTypeParts == { NoDict, [connectionType |-> PyStr(<<"a","d","j">>)] }

ValEdges ==
    { Merge(Merge(a, b), c) : a \in EdgeFromParts, b \in EdgeToParts,
                              c \in EdgeTypeParts }

SeqsUpTo(S, n) == UNION { [1..k -> S] : k \in 0..n }

InitValidate ==
    /\ pc = "idle"
    /\ file_path = <<>>
    /\ file_exists = FALSE
    /\ cfg_types = <<>>
    /\ context = NewContext(<<>>)
    /\ requests = <<>>
    /\ outcomes = <<>>
    /\ fb_graph = NoGraph
    /\ returned = NotReturned
    /\ \E n \in 0..MaxValItems :
          /\ v_nodes \in [1..n -> ValNodes]
          /\ v_edges \in SeqsUpTo(ValEdges, MaxValItems - n)
    /\ v_result = [done |-> FALSE, raised |-> FALSE, valid |-> FALSE, errors |-> <<>>]
    /\ StoreIdle
    /\ ExpIdle
    /\ UiIdle
    /\ FnIdle

Validate ==
    /\ ~ v_result.done
    /\ v_result' = [done |-> TRUE,
                    raised |-> validate_export_data(v_nodes, v_edges).raised,
                    valid |-> validate_export_data(v_nodes, v_edges).valid,
                    errors |-> validate_export_data(v_nodes, v_edges).errors]
    /\ UNCHANGED <<callVars, v_nodes, v_edges, procVars, storeVars, expVars, uiVars, fnVars>>

NextValidate == Validate

SpecValidate == InitValidate /\ [][NextValidate]_vars

-----------------------------------------------------------------------------
(* Properties of validate_export_data *)

\* a field that is missing from the dictionary, None or the empty string
MissingOrEmpty(d, field) ==
    \/ field \notin DOMAIN d
    \/ d[field] = PyNone
    \/ d[field] = PyStr(<<>>)

\* a coordinate that is missing or not an integer
BadCoordinate(d, c) == c \notin DOMAIN d \/ d[c].t # "int"

\* the identifiers of the nodes of the list
NodeIdSet(nodes) ==
    { nodes[i]["kuzuElementId"] :
        i \in { j \in 1..Len(nodes) : ~ MissingOrEmpty(nodes[j], "kuzuElementId") } }

\* an endpoint reference that is given but names no node of the list
DanglingRef(edge, key, nodes) ==
    ~ MissingOrEmpty(edge, key) /\ edge[key] \notin NodeIdSet(nodes)

NodeFieldFaults(nodes) ==
    { <<i, f>> \in (1..Len(nodes)) \X {"kuzuElementId", "ifcGuid", "ifcType", "name"} :
        MissingOrEmpty(nodes[i], f) }

NodeCoordFaults(nodes) ==
    { <<i, c>> \in (1..Len(nodes)) \X {"x", "y", "z"} : BadCoordinate(nodes[i], c) }

EdgeFaults(nodes, edges) ==
    { <<i, k>> \in (1..Len(edges)) \X {"fromKuzuId", "toKuzuId", "connectionType"} :
        IF k = "connectionType" THEN MissingOrEmpty(edges[i], k)
        ELSE DanglingRef(edges[i], k, nodes) }

ErrorsAbout(errors, idx, field) ==
    { k \in 1..Len(errors) : errors[k].idx = idx /\ errors[k].field = field }

\* where the call returns: an empty node list gives the single error of
\* that case; on a non-empty node list there is exactly one error for each
\* missing or empty required field of each node, one for each missing or
\* non-integer coordinate and one for each offending edge condition (a
\* given endpoint reference that names no node, a missing connection type);
\* the result is valid exactly when there is no error
ExhaustiveErrors ==
    /\ v_result.valid <=> v_result.errors = <<>>
    /\ v_nodes = <<>> => Len(v_result.errors) = 1
    /\ v_nodes # <<>> =>
        /\ Len(v_result.errors) =
              Cardinality(NodeFieldFaults(v_nodes)) + Cardinality(NodeCoordFaults(v_nodes))
              + Cardinality(EdgeFaults(v_nodes, v_edges))
        /\ \A p \in NodeFieldFaults(v_nodes) \cup NodeCoordFaults(v_nodes) :
              \E k \in ErrorsAbout(v_result.errors, p[1] - 1, p[2]) :
                  v_result.errors[k].kind \in {"Missing required field",
                      "Missing coordinate", "Coordinate must be int256"}
        /\ \A p \in EdgeFaults(v_nodes, v_edges) :
              \E k \in ErrorsAbout(v_result.errors, p[1] - 1, p[2]) :
                  v_result.errors[k].kind \in {"not found in nodes", "Missing connectionType"}

\* the exhaustive error list is what every call that returns gives
ReturnedIsExhaustive == (v_result.done /\ ~ v_result.raised) => ExhaustiveErrors

\* C7 (as claimed): on every non-empty node list validate_export_data does
\* not raise, and its error list has one entry per missing or empty
\* required field, per missing or non-integer coordinate and per offending
\* edge condition, the result being valid exactly when the list is empty.
C7_NeverRaisesAndExhaustive ==
    (v_result.done /\ v_nodes # <<>>) => (~ v_result.raised /\ ExhaustiveErrors)

\* C8 (as claimed): a valid result means that both endpoint references of
\* every edge are given and identify a node of the node list.
C8_ValidMeansEdgesResolve ==
    (v_result.done /\ v_result.valid) =>
        \A i \in 1..Len(v_edges) :
            \A k \in {"fromKuzuId", "toKuzuId"} :
                /\ ~ MissingOrEmpty(v_edges[i], k)
                /\ v_edges[i][k] \in NodeIdSet(v_nodes)

-----------------------------------------------------------------------------
(* BlockchainExportService: export  (services/blockchain_service.py) *)

\* the printable ASCII characters, code 32 upwards, which str.encode('utf-8')
\* turns into one byte each (the double quote, backslash and backtick are
\* written out by name); "<e-acute>" is U+00E9, encoded in two bytes
AsciiFrom32 ==
    <<" ", "!", "<dquote>", "#", "$", "%", "&", "'", "(", ")", "*", "+", ",", "-", ".", "/",
      "0", "1", "2", "3", "4", "5", "6", "7", "8", "9", ":", ";", "<", "=", ">", "?",
      "@", "A", "B", "C", "D", "E", "F", "G", "H", "I", "J", "K", "L", "M", "N", "O",
      "P", "Q", "R", "S", "T", "U", "V", "W", "X", "Y", "Z", "[", "<backslash>", "]", "^", "_",
      "<backtick>", "a", "b", "c", "d", "e", "f", "g", "h", "i", "j", "k", "l", "m", "n", "o",
      "p", "q", "r", "s", "t", "u", "v", "w", "x", "y", "z", "{", "|", "}", "~">>

HexDigits == <<"0","1","2","3","4","5","6","7","8","9","a","b","c","d","e","f">>

Utf8Char(c) ==
    IF c = "<e-acute>" THEN <<195, 169>>
    ELSE <<31 + (CHOOSE k \in 1..Len(AsciiFrom32) : AsciiFrom32[k] = c)>>

\* text.encode('utf-8')
Utf8(text) == Flatten([i \in 1..Len(text) |-> Utf8Char(text[i])])

\* bytes.hex()
Hex(bytes) ==
    [i \in 1..(2 * Len(bytes)) |->
        IF i % 2 = 1 THEN HexDigits[(bytes[(i + 1) \div 2] \div 16) + 1]
        ELSE HexDigits[(bytes[i \div 2] % 16) + 1]]

Bytes32Len == 32

\* variant: the text is cut to 32 characters before it is encoded
M_string_to_bytes32_cut_chars(text) ==
    IF text = <<>>
    THEN <<"0", "x">> \o Hex([i \in 1..Bytes32Len |-> 0])
    ELSE LET cut        == SubSeq(text, 1, IF Len(text) < Bytes32Len THEN Len(text)
                                           ELSE Bytes32Len)
             text_bytes == Utf8(cut)
             padded     == text_bytes \o [i \in 1..(Bytes32Len - Len(text_bytes)) |-> 0]
         IN  <<"0", "x">> \o Hex(padded)

\* variant: the whole encoding of the text is written, however long
M_string_to_bytes32_whole_text(text) ==
    IF text = <<>>
    THEN <<"0", "x">> \o Hex([i \in 1..Bytes32Len |-> 0])
    ELSE LET text_bytes == Utf8(text)
             padded     == text_bytes \o [i \in 1..(Bytes32Len - Len(text_bytes)) |-> 0]
         IN  <<"0", "x">> \o Hex(padded)

_string_to_bytes32(text) ==
    IF text = <<>>
    THEN <<"0", "x">> \o Hex([i \in 1..Bytes32Len |-> 0])
    ELSE LET all        == Utf8(text)
             text_bytes == SubSeq(all, 1, IF Len(all) < Bytes32Len THEN Len(all)
                                          ELSE Bytes32Len)
             padded     == text_bytes \o [i \in 1..(Bytes32Len - Len(text_bytes)) |-> 0]
         IN  <<"0", "x">> \o Hex(padded)

\* str(n) for n >= 0
RECURSIVE DecStr(_)
DecStr(n) ==
    IF n < 10 THEN <<HexDigits[n + 1]>>
    ELSE DecStr(n \div 10) \o <<HexDigits[(n % 10) + 1]>>

\* TokenType enum values
PROJECT == 0
BUILDING == 1
STOREY == 2
SPACE == 3
COMPONENT == 4

\* variant: the building rule does not look for "storey"
M_determine_token_type_building_first(ifc_type) ==
    LET ifc_type_lower == Lower(ifc_type)
    IN  IF Contains(ifc_type_lower, <<"p","r","o","j","e","c","t">>) THEN PROJECT
        ELSE IF Contains(ifc_type_lower, <<"b","u","i","l","d","i","n","g">>) THEN BUILDING
        ELSE IF \/ Contains(ifc_type_lower, <<"s","t","o","r","e","y">>)
                \/ Contains(ifc_type_lower, <<"f","l","o","o","r">>) THEN STOREY
        ELSE IF \/ Contains(ifc_type_lower, <<"s","p","a","c","e">>)
                \/ Contains(ifc_type_lower, <<"r","o","o","m">>)
                \/ Contains(ifc_type_lower, <<"z","o","n","e">>) THEN SPACE
        ELSE COMPONENT

_determine_token_type(ifc_type) ==
    LET ifc_type_lower == Lower(ifc_type)
    IN  IF Contains(ifc_type_lower, <<"p","r","o","j","e","c","t">>) THEN PROJECT
        ELSE IF /\ Contains(ifc_type_lower, <<"b","u","i","l","d","i","n","g">>)
                /\ ~ Contains(ifc_type_lower, <<"s","t","o","r","e","y">>) THEN BUILDING
        ELSE IF \/ Contains(ifc_type_lower, <<"s","t","o","r","e","y">>)
                \/ Contains(ifc_type_lower, <<"f","l","o","o","r">>) THEN STOREY
        ELSE IF \/ Contains(ifc_type_lower, <<"s","p","a","c","e">>)
                \/ Contains(ifc_type_lower, <<"r","o","o","m">>)
                \/ Contains(ifc_type_lower, <<"z","o","n","e">>) THEN SPACE
        ELSE COMPONENT

\* stored coordinates are decimal numbers held as integer multiples of 1e-7,
\* so c * 1000 is c.n / UnitsPerMilli; int() drops the fraction, towards zero
UnitsPerMilli == 10000

\* x * 1000 for the double x nearest n / 1000 (n > 0) comes out below n:
\* the exact product is n + RoundingError / 2^places, and it is rounded to
\* the double under n when it lies more than half a step under n (the step
\* under a power of two is half the step above it)
ProductFallsShort(n) ==
    LET e_n  == FloorLog2(n, 1)
        step == e_n - FloorLog2(n, 1000) - (IF n = 2^e_n THEN 1 ELSE 0)
    IN  -RoundingError(n, 1000) > 2^(step - 1)

\* int(x * 1000): when the decimal product is a whole number n the float
\* product is n or just under it, and int() of the latter is n - 1; any
\* other product is too far from a whole number for the rounding to matter
ScaleCoordinate(c) ==
    LET a == Abs(c.n)
        n == a \div UnitsPerMilli
        m == IF a % UnitsPerMilli = 0 /\ n > 0 /\ ProductFallsShort(n) THEN n - 1 ELSE n
    IN  PyInt(IF c.n >= 0 THEN m ELSE -m)

\* a or b
PyOr(a, b) == IF Truthy(a) THEN a ELSE b

Chars_Unknown == <<"U","n","k","n","o","w","n">>
Chars_Unnamed == <<"U","n","n","a","m","e","d">>

\* KuzuService.get_vertices_by_file: one dict per stored row, in query order
get_vertices_by_file(rows, fid) ==
    [i \in 1..Len(rows) |->
        [id |-> rows[i].id,
         ifc_type |-> PyOr(rows[i].ifc_type, PyStr(Chars_Unknown)),
         name |-> PyOr(rows[i].name, PyStr(Chars_Unnamed)),
         x |-> PyOr(rows[i].x, PyFloat(0)),
         y |-> PyOr(rows[i].y, PyFloat(0)),
         z |-> PyOr(rows[i].z, PyFloat(0)),
         ifc_guid |-> PyOr(rows[i].ifc_guid, PyStr(<<>>)),
         building_id |-> PyOr(rows[i].building_id, PyStr(<<>>)),
         file_id |-> PyStr(fid)]]

\* variant: a node whose element has a name is exported as existing
M_convert_vertex_named_exists(vertex, fid) ==
    [tokenType |-> PyInt(_determine_token_type(Lower(vertex.ifc_type.s))),
     kuzuElementId |-> vertex.id,
     topologicVertexId |-> vertex.id,
     ifcGuid |-> vertex.ifc_guid,
     ifcType |-> vertex.ifc_type,
     name |-> vertex.name,
     x |-> ScaleCoordinate(vertex.x),
     y |-> ScaleCoordinate(vertex.y),
     z |-> ScaleCoordinate(vertex.z),
     fileId |-> PyStr(_string_to_bytes32(fid)),
     buildingId |-> PyStr(_string_to_bytes32(vertex.building_id.s)),
     parentTokenId |-> PyInt(0),
     childTokenIds |-> PyList(<<>>),
     status |-> PyInt(0),
     mintedAt |-> PyInt(0),
     exists |-> PyBool(vertex.name.s = Chars_elem)]

_convert_vertex_to_graph_node(vertex, fid) ==
    [tokenType |-> PyInt(_determine_token_type(Lower(vertex.ifc_type.s))),
     kuzuElementId |-> vertex.id,
     topologicVertexId |-> vertex.id,
     ifcGuid |-> vertex.ifc_guid,
     ifcType |-> vertex.ifc_type,
     name |-> vertex.name,
     x |-> ScaleCoordinate(vertex.x),
     y |-> ScaleCoordinate(vertex.y),
     z |-> ScaleCoordinate(vertex.z),
     fileId |-> PyStr(_string_to_bytes32(fid)),
     buildingId |-> PyStr(_string_to_bytes32(vertex.building_id.s)),
     parentTokenId |-> PyInt(0),
     childTokenIds |-> PyList(<<>>),
     status |-> PyInt(0),
     mintedAt |-> PyInt(0),
     exists |-> PyBool(FALSE)]

\* lines 82-87: keep the vertices whose lower-cased type is a lower-cased filter entry
FilterByType(vertices, include_types) ==
    IF include_types = <<>> THEN vertices
    ELSE LET normalized_types == { Lower(include_types[i]) : i \in 1..Len(include_types) }
             Keep(v) == Lower(v.ifc_type.s) \in normalized_types
         IN  SelectSeq(vertices, Keep)

\* variant: positions are counted from 1
M_IndexOf_one_based(vertices, id) ==
    CHOOSE i \in 1..Len(vertices) :
        /\ vertices[i].id = id
        /\ \A j \in (i+1)..Len(vertices) : vertices[j].id # id

\* vertex_id_to_index: the last position holding the id, 0-based
IndexOf(vertices, id) ==
    (CHOOSE i \in 1..Len(vertices) :
        /\ vertices[i].id = id
        /\ \A j \in (i+1)..Len(vertices) : vertices[j].id # id) - 1

InExport(vertices, id) == \E i \in 1..Len(vertices) : vertices[i].id = id

\* lines 219-240: the rows of the relationship query, in order; rows read
\* before the store raises (after raise_after rows) are kept
RECURSIVE EdgesFromRows(_, _, _, _, _)
EdgesFromRows(rows, i, limit, vertices, edge_counter) ==
    IF i > Len(rows) \/ i > limit THEN <<>>
    ELSE IF InExport(vertices, rows[i].from_id) /\ InExport(vertices, rows[i].to_id)
         THEN << [fromTokenId |-> PyInt(0),
                  toTokenId |-> PyInt(0),
                  fromIndex |-> PyInt(IndexOf(vertices, rows[i].from_id)),
                  toIndex |-> PyInt(IndexOf(vertices, rows[i].to_id)),
                  connectionType |-> PyOr(rows[i].connection_type,
                                          PyStr(<<"t","o","p","o","l","o","g","i","c","a","l">>)),
                  edgeProperties |-> PyStr(<<"{", "}">>),
                  kuzuEdgeId |-> PyStr(_string_to_bytes32(
                                    <<"e","d","g","e","_">> \o DecStr(edge_counter))),
                  bidirectional |-> PyBool(TRUE)] >>
              \o EdgesFromRows(rows, i + 1, limit, vertices, edge_counter + 1)
         ELSE EdgesFromRows(rows, i + 1, limit, vertices, edge_counter)

\* fault: how the store behaves during the query ("none", or it raises
\* after having delivered fault.after rows); the exception is swallowed
_get_edges_for_file(rel_rows, vertices, fault) ==
    IF fault.kind = "edges"
    THEN EdgesFromRows(rel_rows, 1, fault.after, vertices, 0)
    ELSE EdgesFromRows(rel_rows, 1, Len(rel_rows), vertices, 0)

-----------------------------------------------------------------------------
(* The graph store (services/kuzu_service.py), as far as the export reads  *)
(* it: the IfcElement rows and TopologicalConnection rows of one file.     *)

FileId == <<"f","1">>

\* the str(uuid.uuid4()) of _store_building_record
BuildingId == <<"b","1">>

\* _store_building_record: the id of the new IfcBuilding row, or None when
\* the CREATE raises; store_graph goes on to the vertices either way
_store_building_record(create_raises) ==
    IF create_raises THEN PyNone ELSE PyStr(BuildingId)

\* the vertices that store_graph may be given for the file, listed in the
\* order of the query's ORDER BY n.ifc_type, n.name on their stored form;
\* the first is the product of a strategy without dictionaries
StoreCatalog ==
    << [id |-> <<"e","1">>, ifc_type |-> PyNone, ifc_guid |-> PyNone, ifc_name |-> PyNone,
        coordinates |-> <<10010000, -10030000, 0>>],
       [id |-> <<"e","2">>, ifc_type |-> PyStr(Chars_IfcWall), ifc_guid |-> PyStr(Chars_guid),
        ifc_name |-> PyStr(Chars_elem), coordinates |-> <<105000000, 203000000, 32000000>>],
       [id |-> <<"e","3">>, ifc_type |-> PyStr(<<"i","f","c","s","p","a","c","e">>), ifc_guid |-> PyStr(Chars_guid),
        ifc_name |-> PyNone, coordinates |-> <<-12346000, 15004, -9999>>] >>

\* _convert_to_kuzu_vertex and the CREATE of _store_vertices: None is
\* written as the empty string, the building id of a file without building
\* record included
StoredRow(v, building_id) ==
    [id |-> PyStr(v.id),
     ifc_type |-> PyOr(v.ifc_type, PyStr(<<>>)),
     ifc_guid |-> PyOr(v.ifc_guid, PyStr(<<>>)),
     name |-> PyOr(v.ifc_name, PyStr(<<>>)),
     x |-> PyFloat(v.coordinates[1]),
     y |-> PyFloat(v.coordinates[2]),
     z |-> PyFloat(v.coordinates[3]),
     building_id |-> PyOr(building_id, PyStr(<<>>))]

\* the rows MATCH (n:IfcElement {file_id: $file_id}) returns, in query order
RECURSIVE RowsFrom(_, _, _)
RowsFrom(i, elems, building_id) ==
    IF i > Len(StoreCatalog) THEN <<>>
    ELSE (IF i \in elems THEN <<StoredRow(StoreCatalog[i], building_id)>> ELSE <<>>)
         \o RowsFrom(i + 1, elems, building_id)

ElementRows(elems, building_id) == RowsFrom(1, elems, building_id)

\* the vertex dicts get_vertices_by_file can return for the catalog's
\* elements, and the graph node _convert_vertex_to_graph_node makes of each:
\* the conversion depends on the vertex and the file id only, so the nodes
\* of the catalog's vertices are computed once and looked up afterwards
CatalogVertices ==
    { get_vertices_by_file(ElementRows({i}, building_id), FileId)[1] :
          i \in 1..Len(StoreCatalog), building_id \in {PyNone, PyStr(BuildingId)} }

CatalogNodes ==
    [vertex \in CatalogVertices |-> _convert_vertex_to_graph_node(vertex, FileId)]

\* line 95: node = self._convert_vertex_to_graph_node(vertex, file_id)
GraphNodeOf(vertex, fid) ==
    IF fid = FileId /\ vertex \in CatalogVertices THEN CatalogNodes[vertex]
    ELSE _convert_vertex_to_graph_node(vertex, fid)

\* a store failure inside get_vertices_by_file is swallowed there: it returns []
export_building_for_minting(elem_rows, rel_rows, fid, include_types, fault) ==
    LET fetched == IF fault.kind = "vertices" THEN <<>>
                   ELSE get_vertices_by_file(elem_rows, fid)
    IN  IF fetched = <<>> THEN [nodes |-> <<>>, edges |-> <<>>]
        ELSE LET vertices == FilterByType(fetched, include_types)
             IN  [nodes |-> [i \in 1..Len(vertices) |->
                               GraphNodeOf(vertices[i], fid)],
                  edges |-> _get_edges_for_file(rel_rows, vertices, fault)]

ConnectionTypes == { PyNone, PyStr(<<"a","d","j">>) }

\* _store_vertices: CREATE (n:IfcElement {...}) for one vertex; store_graph
\* returns at once when the store is not available.  The building record
\* is written before the first vertex, and every vertex of the file gets
\* what that returned
StoreVertexOf(create_outcomes) ==
    \E i \in (1..Len(StoreCatalog)) \ store_elems, create_raises \in create_outcomes :
        /\ is_available
        /\ store_elems' = store_elems \cup {i}
        /\ store_building' = IF store_elems = {}
                             THEN _store_building_record(create_raises)
                             ELSE store_building
        /\ exp_args' = NoCall
        /\ exp_result' = NoExport
        /\ UNCHANGED <<is_available, store_rels, store_tokens>>

\* _store_edges: MATCH both endpoints, CREATE the TopologicalConnection
StoreEdgeOf(connection_types) ==
    \E a \in store_elems, b \in store_elems, ct \in connection_types :
        /\ is_available
        /\ Len(store_rels) < MaxRels
        /\ store_rels' = Append(store_rels,
              [from_id |-> PyStr(StoreCatalog[a].id), to_id |-> PyStr(StoreCatalog[b].id),
               connection_type |-> PyOr(ct, PyStr(<<>>))])
        /\ exp_args' = NoCall
        /\ exp_result' = NoExport
        /\ UNCHANGED <<is_available, store_elems, store_tokens, store_building>>

\* sync_token_ids_to_kuzu with a mapping from element ids to token ids:
\* SET n.token_id, n.minted_at, n.minting_status on each row that matches.
\* IfcElement declares none of these properties (_create_schema), and each
\* row is updated in a try of its own, so any part of the mapped rows takes
\* the SET and for the others the exception is swallowed
SyncTokenIds ==
    \E kuzu_ids \in (SUBSET store_elems) \ {{}} :
        \E updated \in SUBSET kuzu_ids :
            /\ is_available
            /\ store_tokens' = store_tokens \cup updated
            /\ exp_args' = NoCall
            /\ exp_result' = NoExport
            /\ UNCHANGED <<is_available, store_elems, store_rels, store_building>>

\* clear_database: MATCH (n) DETACH DELETE n removes every node with its
\* relationships.  When the store is not available, or raises (the exception
\* is swallowed), nothing has changed
ClearDatabase ==
    /\ is_available
    /\ store_elems' = {}
    /\ store_rels' = <<>>
    /\ store_tokens' = {}
    /\ store_building' = PyNone
    /\ exp_args' = NoCall
    /\ exp_result' = NoExport
    /\ UNCHANGED is_available

ExportFilters ==
    { <<>>, << <<"i","f","c","w","a","l","l">> >>, << <<"i","f","c","w","a","l","l">>, <<"I","F","C","S","P","A","C","E">> >>,
      << <<"I","f","c","D","o","o","r">> >>,
      << <<"u","n","k","n","o","w","n">> >> }

\* how the store behaves during one export call
StoreFaults(rels) ==
    { NoFault, [kind |-> "vertices", after |-> 0] }
    \cup { [kind |-> "edges", after |-> k] : k \in 0..(Len(rels) - 1) }

\* one call of export_building_for_minting on the current store; the
\* returned lists are kept until the store changes
Export ==
    \E include_types \in ExportFilters, fault \in StoreFaults(store_rels) :
        /\ ~ exp_args.called
        /\ exp_args' = [called |-> TRUE, include_types |-> include_types, fault |-> fault]
        /\ exp_result' = export_building_for_minting(ElementRows(store_elems, store_building), store_rels,
                             FileId, include_types, fault)
        /\ UNCHANGED storeVars

InitExport ==
    /\ pc = "idle"
    /\ file_path = <<>>
    /\ file_exists = FALSE
    /\ cfg_types = <<>>
    /\ context = NewContext(<<>>)
    /\ requests = <<>>
    /\ outcomes = <<>>
    /\ fb_graph = NoGraph
    /\ returned = NotReturned
    /\ ValIdle
    /\ StoreIdle
    /\ ExpIdle
    /\ UiIdle
    /\ FnIdle

NextExport ==
    \/ StoreVertexOf(BOOLEAN) /\ UNCHANGED <<callVars, procVars, valVars, uiVars, fnVars>>
    \/ StoreEdgeOf(ConnectionTypes) /\ UNCHANGED <<callVars, procVars, valVars, uiVars, fnVars>>
    \/ ClearDatabase /\ UNCHANGED <<callVars, procVars, valVars, uiVars, fnVars>>
    \/ Export /\ UNCHANGED <<callVars, procVars, valVars, uiVars, fnVars>>

SpecExport == InitExport /\ [][NextExport]_vars

-----------------------------------------------------------------------------
(* SpecReexport: export calls on one service object while the store grows *)
(* or is cleared; the latest call is kept with what it returned           *)

ReexportFilters ==
    { <<>>, << <<"i","f","c","w","a","l","l">>, <<"I","F","C","S","P","A","C","E">> >> }

\* export_building_for_minting called again, whatever was exported before
\* and however the store behaves during this call
ExportAgain ==
    \E include_types \in ReexportFilters, fault \in StoreFaults(store_rels) :
        /\ last_export' =
              [some |-> TRUE, include_types |-> include_types, fault |-> fault,
               result |-> export_building_for_minting(ElementRows(store_elems, store_building), store_rels,
                              FileId, include_types, fault),
               stale |-> FALSE]
        /\ UNCHANGED <<storeVars, expVars>>

StoreChanged == last_export' = [last_export EXCEPT !.stale = TRUE]

\* a cleared store starts the record anew: an export made before the clear
\* is not compared with one made after it
StoreCleared == last_export' = NoEarlierExport

InitReexport == InitExport

NextReexport ==
    \/ StoreVertexOf(BOOLEAN) /\ StoreChanged /\ UNCHANGED <<procVars, valVars, uiVars, fnVars>>
    \/ Len(store_rels) < MaxMintRels /\ StoreEdgeOf(ConnectionTypes) /\ StoreChanged
          /\ UNCHANGED <<procVars, valVars, uiVars, fnVars>>
    \/ ClearDatabase /\ StoreCleared /\ UNCHANGED <<procVars, valVars, uiVars, fnVars>>
    \/ ExportAgain /\ UNCHANGED <<procVars, valVars, uiVars, fnVars>>

SpecReexport == InitReexport /\ [][NextReexport]_vars

-----------------------------------------------------------------------------
(* Properties of export_building_for_minting *)

\* the stored elements that pass the type filter, by case-insensitive
\* comparison of the type the store query reports, in store order
PassesFilter(row, include_types) ==
    \/ include_types = <<>>
    \/ \E k \in 1..Len(include_types) :
          Lower(include_types[k]) =
              Lower(IF row.ifc_type.s = <<>> THEN Chars_Unknown ELSE row.ifc_type.s)

ExpectedIds(elems, include_types) ==
    LET rows == ElementRows(elems, store_building)
        Pass(r) == PassesFilter(r, include_types)
        kept == SelectSeq(rows, Pass)
    IN  [i \in 1..Len(kept) |-> kept[i].id]

\* the stored relationships whose two endpoints are both exported
SurvivingRels(rels, ids) ==
    LET Both(r) == /\ \E i \in 1..Len(ids) : ids[i] = r.from_id
                   /\ \E i \in 1..Len(ids) : ids[i] = r.to_id
    IN  SelectSeq(rels, Both)

ExportedIds == [i \in 1..Len(exp_result.nodes) |-> exp_result.nodes[i].kuzuElementId]

\* C9 (as claimed): for every store content and type filter the exported
\* edges are, in store order, exactly the stored relationships whose two
\* endpoints are both exported nodes, one edge each; a relationship with a
\* filtered-out endpoint has none.
C9_EdgesAreSurvivingRels ==
    exp_args.called =>
        LET kept == SurvivingRels(store_rels, ExportedIds)
        IN  /\ Len(exp_result.edges) = Len(kept)
            /\ \A k \in 1..Len(exp_result.edges) :
                  LET e == exp_result.edges[k]
                  IN  /\ e.fromIndex.n \in 0..(Len(exp_result.nodes) - 1)
                      /\ e.toIndex.n \in 0..(Len(exp_result.nodes) - 1)
                      /\ ExportedIds[e.fromIndex.n + 1] = kept[k].from_id
                      /\ ExportedIds[e.toIndex.n + 1] = kept[k].to_id
                      /\ e.connectionType \in {kept[k].connection_type,
                                                PyStr(<<"t","o","p","o","l","o","g","i","c","a","l">>)}

\* C10: the exported nodes are the filtered stored elements in store order,
\* so a node's position is its dense index; every exported edge carries
\* indices within the node list whose nodes have the stored ids of the
\* relationship's source and target.
C10_DenseIndices ==
    exp_args.called =>
        /\ exp_result.nodes # <<>> =>
              ExportedIds = ExpectedIds(store_elems, exp_args.include_types)
        /\ \A i \in 1..Len(ExportedIds), j \in 1..Len(ExportedIds) :
              i # j => ExportedIds[i] # ExportedIds[j]
        /\ LET kept == SurvivingRels(store_rels, ExportedIds)
           IN  /\ Len(exp_result.edges) <= Len(kept)
               /\ \A k \in 1..Len(exp_result.edges) :
                     LET e == exp_result.edges[k]
                     IN  /\ 0 <= e.fromIndex.n /\ e.fromIndex.n < Len(exp_result.nodes)
                         /\ 0 <= e.toIndex.n /\ e.toIndex.n < Len(exp_result.nodes)
                         /\ exp_result.nodes[e.fromIndex.n + 1].kuzuElementId
                               = kept[k].from_id
                         /\ exp_result.nodes[e.toIndex.n + 1].kuzuElementId
                               = kept[k].to_id

\* an export of three nodes with an edge from the last node to the first
C10_Witness ==
    /\ exp_args.called
    /\ Len(exp_result.nodes) = 3
    /\ Len(exp_result.edges) = 2
    /\ exp_result.edges[1].fromIndex = PyInt(2)
    /\ exp_result.edges[1].toIndex = PyInt(0)
    /\ exp_result.edges[2].fromIndex = PyInt(1)

-----------------------------------------------------------------------------
(* The minting workflow: render_minting_interface (ui/blockchain_ui.py),   *)
(* Web3Service.mint_building_graph (services/web3_service.py) and          *)
(* prepare_batch_mint_data (services/blockchain_service.py).               *)

\* dict.get(key, default)
GetOr(d, key, default) == IF key \in DOMAIN d THEN d[key] ELSE default

\* an argument of st.error: n is the number put before a listed error
Shown(n, error) == [n |-> n, error |-> error]

Heading(text) == Shown(0, Err(text, 0, "", <<>>))

\* render_mint_preview: export without filter, validate, display.  nodes,
\* edges and validation are what the function returns, validated what
\* validate_export_data was called with and returned, shown the arguments
\* of the st.error calls the function makes before it returns, in order
render_mint_preview(elem_rows, rel_rows, fid, fault) ==
    LET exported == export_building_for_minting(elem_rows, rel_rows, fid, <<>>, fault)
        nodes == exported.nodes
        edges == exported.edges
    IN  IF nodes = <<>>
        THEN [nodes |-> <<>>, edges |-> <<>>,
              validation |-> [valid |-> FALSE,
                              errors |-> <<Err("No nodes found", 0, "", <<>>)>>],
              validated |-> <<>>,
              shown |-> <<Heading("No components found for this building")>>]
        ELSE LET result == validate_export_data(nodes, edges)
             IN  IF result.raised
                 THEN [nodes |-> <<>>, edges |-> <<>>,
                       validation |-> [valid |-> FALSE,
                                       errors |-> <<Err("TypeError", 0, "", <<>>)>>],
                       validated |-> <<>>,
                       shown |-> <<Heading("Export failed")>>]
                 ELSE
                 [nodes |-> nodes, edges |-> edges,
                  validation |-> [valid |-> result.valid, errors |-> result.errors],
                  validated |-> <<[nodes |-> nodes, edges |-> edges,
                                   valid |-> result.valid, errors |-> result.errors]>>,
                  shown |-> IF result.valid THEN <<>>
                            ELSE <<Heading("Validation Failed - Cannot proceed with minting")>>
                                 \o [k \in 1..Len(result.errors) |->
                                        Shown(k, result.errors[k])]]

\* variant: the workflow goes on to gas estimation whatever validation said
M_AfterPreview_no_gate(validation) == "gas"

\* render_minting_interface after step 2: the validity gate
AfterPreview(validation) == IF validation.valid THEN "gas" ELSE "end"

\* the 16 fields of a node, in the order of the contract's struct
node_tuple(node) ==
    << node.tokenType, node.kuzuElementId, node.topologicVertexId, node.ifcGuid,
       node.ifcType, node.name, node.x, node.y, node.z, node.fileId,
       node.buildingId, node.parentTokenId, node.childTokenIds, node.status,
       node.mintedAt, node.exists >>

\* the 8 fields of an edge
edge_tuple(edge) ==
    << GetOr(edge, "fromTokenId", PyInt(0)), GetOr(edge, "toTokenId", PyInt(0)),
       GetOr(edge, "fromIndex", PyInt(0)), GetOr(edge, "toIndex", PyInt(0)),
       edge.connectionType, edge.edgeProperties, edge.kuzuEdgeId,
       edge.bidirectional >>

\* what the chain does with one minting call:
\*   "not sent"    get_transaction_count, gas_price, build_transaction, the
\*                 signing or send_raw_transaction raises
\*   "no receipt"  wait_for_transaction_receipt raises
\*   "reverted"    the receipt has status 0: an entry is added to
\*                 minting_error_details.json, then the call raises
\*   "reverted, details not saved"  the same, and the file cannot be written
\*   "no event"    status 1, but the receipt holds no BuildingGraphMinted event
\*   "minted"      status 1, (project_token_id, receipt) is returned
ChainOutcomes ==
    { "not sent", "no receipt", "reverted", "reverted, details not saved",
      "no event", "minted" }

\* Web3Service.mint_building_graph: ValueError before anything is built if
\* the contract or the account is missing, else the transaction is built
\* from the tuples, signed and sent, and the call waits for the receipt.
\* With chain = "waiting" this is the call as it stands once the
\* transaction is sent and wait_for_transaction_receipt has not returned
mint_building_graph(building_graph_nft, account, nodes, edges, chain) ==
    IF ~ building_graph_nft \/ ~ account
    THEN [called |-> TRUE, nodes |-> nodes, edges |-> edges, raised |-> TRUE,
          node_tuples |-> <<>>, edge_tuples |-> <<>>, sent |-> FALSE,
          receipt |-> "none", error_details_saved |-> FALSE]
    ELSE [called |-> TRUE, nodes |-> nodes, edges |-> edges,
          raised |-> chain \notin {"minted", "waiting"},
          node_tuples |-> [i \in 1..Len(nodes) |-> node_tuple(nodes[i])],
          edge_tuples |-> [i \in 1..Len(edges) |-> edge_tuple(edges[i])],
          sent |-> chain # "not sent",
          receipt |-> IF chain \in {"not sent", "no receipt", "waiting"} THEN "none"
                      ELSE IF chain \in {"no event", "minted"} THEN "status 1"
                      ELSE "status 0",
          error_details_saved |-> chain = "reverted"]

\* prepare_batch_mint_data: export and format, ValueError if there are no nodes
prepare_batch_mint_data(elem_rows, rel_rows, fid, fault) ==
    LET exported == export_building_for_minting(elem_rows, rel_rows, fid, <<>>, fault)
    IN  IF exported.nodes = <<>>
        THEN [prepared |-> TRUE, raised |-> TRUE, fileId |-> <<>>, nodes |-> <<>>,
              edges |-> <<>>, nodeCount |-> 0, edgeCount |-> 0]
        ELSE [prepared |-> TRUE, raised |-> FALSE, fileId |-> _string_to_bytes32(fid),
              nodes |-> exported.nodes, edges |-> exported.edges,
              nodeCount |-> Len(exported.nodes), edgeCount |-> Len(exported.edges)]

-----------------------------------------------------------------------------
(* SpecMint: the store and the script runs of the minting tab.  The store  *)
(* is written by the processing tab of the same single-threaded script, so *)
(* it changes between the runs of the minting workflow, not inside one.    *)
(* The relationships stored here carry no connection type (SpecExport has  *)
(* both kinds).                                                            *)

\* what get_all_files and the selector's widgets do when the store is
\* available: "no files" is an empty list (no IfcFile row, or the query
\* raised and [] was returned), "refresh" the Refresh button, whose
\* st.rerun() ends the run, "raised" an exception inside the selector
SelectorOutcomes == { "selected", "no files", "refresh", "raised" }

\* step 1, render_building_selector: nothing selected ends the run
SelectBuilding ==
    \E found \in SelectorOutcomes :
        /\ ui.pc = "select"
        /\ ui' = IF ~ is_available
                 THEN [ui EXCEPT !.pc = "end",
                          !.shown = Append(@, Heading("Kuzu database not available"))]
                 ELSE IF found = "selected" THEN [ui EXCEPT !.pc = "preview"]
                 ELSE IF found \in {"no files", "refresh"} THEN [ui EXCEPT !.pc = "end"]
                 ELSE [ui EXCEPT !.pc = "end",
                          !.shown = Append(@, Heading("Error loading buildings"))]
        /\ UNCHANGED <<submission, mint_data, minted_buildings>>

\* the step's st.error calls are still to be made: the run goes to
\* "display" when there are any, else straight on
Display(run, messages, next) ==
    [run EXCEPT !.pc = IF messages = <<>> THEN next ELSE "display",
                !.pending = messages, !.next = next]

\* step 2, render_mint_preview up to the end of its try: the export and
\* the validation have returned, nothing of them is displayed yet
MintPreview ==
    \E fault \in StoreFaults(store_rels) :
        LET r == render_mint_preview(ElementRows(store_elems, store_building), store_rels, FileId, fault)
        IN  /\ ui.pc = "preview"
            /\ ui' = Display([ui EXCEPT !.nodes = r.nodes, !.edges = r.edges,
                                        !.validation = r.validation,
                                        !.validated = @ \o r.validated],
                              r.shown, "gate")
            /\ UNCHANGED <<submission, mint_data, minted_buildings>>

\* one st.error call of the step: the message is on the page
StError ==
    /\ ui.pc = "display"
    /\ ui' = [ui EXCEPT !.pc = IF Len(ui.pending) = 1 THEN ui.next ELSE "display",
                        !.pending = Tail(@),
                        !.shown = Append(@, Head(ui.pending))]
    /\ UNCHANGED <<submission, mint_data, minted_buildings>>

\* render_mint_preview has returned: the gate of lines 686-688
PreviewGate ==
    /\ ui.pc = "gate"
    /\ ui' = IF AfterPreview(ui.validation) = "gas" THEN [ui EXCEPT !.pc = "gas"]
             ELSE [ui EXCEPT !.pc = "end",
                      !.shown = Append(@, Heading("Cannot mint - validation failed"))]
    /\ UNCHANGED <<submission, mint_data, minted_buildings>>

\* what render_gas_estimation meets
GasOutcomes ==
    { "estimated", "not connected", "metamask", "no estimate", "estimate raised",
      "insufficient balance", "balance raised" }

\* the st.error calls of render_gas_estimation
GasErrors(gas) ==
    IF gas = "not connected" THEN <<Heading("Not connected to blockchain")>>
    ELSE IF gas \in {"no estimate", "estimate raised"} THEN <<Heading("Gas estimation failed")>>
    ELSE IF gas = "insufficient balance"
         THEN <<Heading("Insufficient balance"), Heading("Need more ETH to proceed")>>
    ELSE IF gas = "balance raised" THEN <<Heading("Error checking balance")>>
    ELSE <<>>

\* step 3, render_gas_estimation up to its first st.error: with an
\* estimate the run goes on to step 4; on an insufficient balance st.stop()
\* ends it inside render_gas_estimation after the two messages; else {} is
\* returned
GasEstimation ==
    \E gas \in GasOutcomes :
        /\ ui.pc = "gas"
        /\ ui' = Display(ui, GasErrors(gas),
                         IF gas = "estimated" THEN "execute"
                         ELSE IF gas = "insufficient balance" THEN "end"
                         ELSE "gas gate")
        /\ UNCHANGED <<submission, mint_data, minted_buildings>>

\* render_gas_estimation has returned an empty estimate: lines 693-695
GasGate ==
    /\ ui.pc = "gas gate"
    /\ ui' = [ui EXCEPT !.pc = "end",
                 !.shown = Append(@, Heading("Cannot mint - gas estimation failed"))]
    /\ UNCHANGED <<submission, mint_data, minted_buildings>>

\* step 4, render_minting_execution, from the button to the moment
\* mint_building_graph has either raised or sent the transaction and
\* entered wait_for_transaction_receipt.  Without an account address the
\* ValueError of the page is raised before the call
MintingExecution ==
    \E clicked \in BOOLEAN, account \in BOOLEAN, building_graph_nft \in BOOLEAN,
       sent \in BOOLEAN :
        /\ ui.pc = "execute"
        /\ IF ~ clicked
           THEN /\ ui' = [ui EXCEPT !.pc = "end"]
                /\ UNCHANGED submission
           ELSE IF ~ account
           THEN /\ ui' = [ui EXCEPT !.pc = "failed"]
                /\ UNCHANGED submission
           ELSE LET call == mint_building_graph(building_graph_nft, account,
                                ui.nodes, ui.edges,
                                IF sent THEN "waiting" ELSE "not sent")
                IN  /\ submission' = call
                    /\ ui' = [ui EXCEPT !.pc = IF call.raised THEN "failed" ELSE "waiting"]
        /\ UNCHANGED <<mint_data, minted_buildings>>

\* wait_for_transaction_receipt returns or raises, and mint_building_graph
\* runs to its end: the event is parsed, or the details of the revert are
\* written and the exception raised
WaitForReceipt ==
    \E chain \in ChainOutcomes \ {"not sent"} :
        LET call == mint_building_graph(TRUE, TRUE, submission.nodes,
                                        submission.edges, chain)
        IN  /\ ui.pc = "waiting"
            /\ submission' = call
            /\ ui' = [ui EXCEPT !.pc = IF call.raised THEN "failed" ELSE "confirmed"]
            /\ UNCHANGED <<mint_data, minted_buildings>>

\* after the call has returned: the messages of steps 2 and 3, then the
\* file is entered in the session's minted_buildings, which outlives the
\* run, and the summary is displayed
StoreInSessionState ==
    /\ ui.pc = "confirmed"
    /\ minted_buildings' = minted_buildings \cup {FileId}
    /\ ui' = [ui EXCEPT !.pc = "end"]
    /\ UNCHANGED <<submission, mint_data>>

\* the except branch of render_minting_execution
MintingFailed ==
    /\ ui.pc = "failed"
    /\ ui' = [ui EXCEPT !.pc = "end",
                 !.shown = Append(@, Heading("Minting transaction failed"))]
    /\ UNCHANGED <<submission, mint_data, minted_buildings>>

\* the steps that begin with a call into st: there the script runner ends
\* the run when the session has asked for a stop or a rerun meanwhile, and
\* what the step had still to display is not displayed.  Its exception is
\* no Exception, so no except branch of the page handles it
ScriptRunnerStops ==
    /\ ui.pc \in { "select", "preview", "display", "gate", "gas", "gas gate",
                   "execute", "confirmed", "failed" }
    /\ ui' = [ui EXCEPT !.pc = "stopped", !.pending = <<>>]
    /\ UNCHANGED <<submission, mint_data, minted_buildings>>

\* a caller of prepare_batch_mint_data, outside the workflow
PrepareBatchMintData ==
    \E fault \in StoreFaults(store_rels) :
        /\ ui.pc = "select"
        /\ mint_data' = prepare_batch_mint_data(ElementRows(store_elems, store_building), store_rels,
                                                FileId, fault)
        /\ ui' = [ui EXCEPT !.pc = "end"]
        /\ UNCHANGED <<submission, minted_buildings>>

\* the next script run starts from scratch, whether the last one returned
\* or was stopped; the session state is kept
Rerun ==
    /\ ui.pc \in {"end", "stopped"}
    /\ ui' = NewRun
    /\ submission' = NoSubmission
    /\ mint_data' = NoMintData
    /\ UNCHANGED minted_buildings

InitMint ==
    /\ pc = "idle"
    /\ file_path = <<>>
    /\ file_exists = FALSE
    /\ cfg_types = <<>>
    /\ context = NewContext(<<>>)
    /\ requests = <<>>
    /\ outcomes = <<>>
    /\ fb_graph = NoGraph
    /\ returned = NotReturned
    /\ ValIdle
    /\ is_available \in BOOLEAN
    /\ store_elems = {}
    /\ store_rels = <<>>
    /\ store_tokens = {}
    /\ store_building = PyNone
    /\ ExpIdle
    /\ UiIdle
    /\ FnIdle

NextMint ==
    \/ ui.pc = "select" /\ StoreVertexOf(BOOLEAN) /\ UNCHANGED <<callVars, procVars, valVars, uiVars, fnVars>>
    \/ ui.pc = "select" /\ Len(store_rels) < MaxMintRels /\ StoreEdgeOf({PyNone})
          /\ UNCHANGED <<callVars, procVars, valVars, uiVars, fnVars>>
    \/ ui.pc = "select" /\ SyncTokenIds /\ UNCHANGED <<callVars, procVars, valVars, uiVars, fnVars>>
    \/ ui.pc = "select" /\ ClearDatabase /\ UNCHANGED <<callVars, procVars, valVars, uiVars, fnVars>>
    \/ SelectBuilding /\ UNCHANGED <<callVars, procVars, valVars, storeVars, expVars, fnVars>>
    \/ MintPreview /\ UNCHANGED <<callVars, procVars, valVars, storeVars, expVars, fnVars>>
    \/ StError /\ UNCHANGED <<callVars, procVars, valVars, storeVars, expVars, fnVars>>
    \/ PreviewGate /\ UNCHANGED <<callVars, procVars, valVars, storeVars, expVars, fnVars>>
    \/ GasEstimation /\ UNCHANGED <<callVars, procVars, valVars, storeVars, expVars, fnVars>>
    \/ GasGate /\ UNCHANGED <<callVars, procVars, valVars, storeVars, expVars, fnVars>>
    \/ MintingExecution /\ UNCHANGED <<callVars, procVars, valVars, storeVars, expVars, fnVars>>
    \/ WaitForReceipt /\ UNCHANGED <<callVars, procVars, valVars, storeVars, expVars, fnVars>>
    \/ StoreInSessionState /\ UNCHANGED <<callVars, procVars, valVars, storeVars, expVars, fnVars>>
    \/ MintingFailed /\ UNCHANGED <<callVars, procVars, valVars, storeVars, expVars, fnVars>>
    \/ ScriptRunnerStops /\ UNCHANGED <<callVars, procVars, valVars, storeVars, expVars, fnVars>>
    \/ PrepareBatchMintData /\ UNCHANGED <<callVars, procVars, valVars, storeVars, expVars, fnVars>>
    \/ Rerun /\ UNCHANGED <<callVars, procVars, valVars, storeVars, expVars, fnVars>>

SpecMint == InitMint /\ [][NextMint]_vars

-----------------------------------------------------------------------------
(* Properties of the minting workflow *)

\* the run has a validation that returned valid for exactly these lists
ValidatedAsValid(run, nodes, edges) ==
    \E k \in 1..Len(run.validated) :
        /\ run.validated[k].valid
        /\ run.validated[k].nodes = nodes
        /\ run.validated[k].edges = edges

\* the numbered st.error calls of the run, one per validation error
ListedErrors(run) ==
    LET Numbered(m) == m.n > 0
    IN  SelectSeq(run.shown, Numbered)

\* at every point of a run: a submission has a valid validation of its
\* lists behind it; after an invalid validation nothing was submitted,
\* built or sent, the errors validate_export_data accumulated are the ones
\* the workflow holds, and the page lists them one by one in their order:
\* all of them once render_mint_preview has returned, the first ones while
\* it is displaying them or when the script runner ended the run there
GateHolds ==
    /\ submission.called => ValidatedAsValid(ui, submission.nodes, submission.edges)
    /\ submission.sent =>
          /\ Len(submission.node_tuples) = Len(submission.nodes)
          /\ Len(submission.edge_tuples) = Len(submission.edges)
          /\ \A i \in 1..Len(submission.nodes) :
                submission.node_tuples[i][2] = submission.nodes[i].kuzuElementId
    /\ \A k \in 1..Len(ui.validated) :
          ~ ui.validated[k].valid =>
              /\ submission = NoSubmission
              /\ ui.pc \notin {"gas", "gas gate", "execute", "waiting", "confirmed", "failed"}
              /\ ui.validated[k].errors # <<>>
              /\ ui.validation.errors = ui.validated[k].errors
              /\ Len(ListedErrors(ui)) <= Len(ui.validation.errors)
              /\ \A j \in 1..Len(ListedErrors(ui)) :
                    ListedErrors(ui)[j] = Shown(j, ui.validation.errors[j])
              /\ ui.pc \in {"gate", "end"} =>
                    Len(ListedErrors(ui)) = Len(ui.validation.errors)
              /\ ui.pc = "end" =>
                    ui.shown[Len(ui.shown)] = Heading("Cannot mint - validation failed")

\* the step that calls mint_building_graph starts from a run whose
\* validation has already returned valid for the lists it submits
SubmitsOnlyValidated ==
    (~ submission.called /\ submission'.called) =>
        ValidatedAsValid(ui, submission'.nodes, submission'.edges)

-----------------------------------------------------------------------------
(* Properties of the exported nodes *)

\* the vertex that was stored under the id of an exported node
StoredVertexOf(node) ==
    StoreCatalog[CHOOSE i \in 1..Len(StoreCatalog) :
                    PyStr(StoreCatalog[i].id) = node.kuzuElementId]

\* round(c * 1000) of Python: the nearest integer, a tie going to the even one
RoundMilli(c) ==
    LET f == c \div UnitsPerMilli
        r == c % UnitsPerMilli
    IN  IF 2 * r < UnitsPerMilli THEN f
        ELSE IF 2 * r > UnitsPerMilli THEN f + 1
        ELSE IF f % 2 = 0 THEN f ELSE f + 1

\* C11 (as claimed): the x, y and z of every exported node are the integers
\* round(c * 1000) of the stored coordinates, the nearest number of
\* millimetres.
C11_CoordinatesRounded ==
    exp_args.called =>
        \A i \in 1..Len(exp_result.nodes) :
            LET node == exp_result.nodes[i]
                c == StoredVertexOf(node).coordinates
            IN  /\ node.x = PyInt(RoundMilli(c[1]))
                /\ node.y = PyInt(RoundMilli(c[2]))
                /\ node.z = PyInt(RoundMilli(c[3]))

-----------------------------------------------------------------------------
(* SpecFn: the pure functions, each applied once to arguments drawn from   *)
(* bounded sets.                                                           *)

\* IFC type names are a prefix followed by at most this many words
MaxTypeWords == 2

TypePrefixes == { <<>>, <<"I","f","c">> }

TypeWords ==
    { <<"P","r","o","j","e","c","t">>,
      <<"b","u","i","l","d","i","n","g">>,
      <<"B","u","i","l","d","i","n","g">>,
      <<"S","T","O","R","E","Y">>,
      <<"S","t","o","r","e","y">>,
      <<"F","l","o","o","r">>,
      <<"s","p","a","c","e">>,
      <<"R","o","o","m">>,
      <<"z","o","n","e">>,
      <<"W","a","l","l">> }

\* str.join of the words
RECURSIVE Concat(_)
Concat(ws) == IF ws = <<>> THEN <<>> ELSE Head(ws) \o Concat(Tail(ws))

TokenTypeArgs ==
    { [fn |-> "_determine_token_type", words |-> ws, ifc_type |-> p \o Concat(ws)] :
        p \in TypePrefixes, ws \in SeqsUpTo(TypeWords, MaxTypeWords) }

DetermineTokenType ==
    /\ fn_args.fn = "_determine_token_type"
    /\ ~ fn_result.done
    /\ fn_result' = [done |-> TRUE, value |-> _determine_token_type(fn_args.ifc_type)]
    /\ UNCHANGED fn_args

\* texts are made of at most this many blocks
MaxTextBlocks == 3

TextBlocks ==
    { <<"a">>, <<"<e-acute>">>, <<"Z","z","-","_","9">>,
      <<"f","i","l","e","-","1","2","3","4","5","6","7","8","9","0">>,
      <<"0","1","2","3","4","5","6","7","8","9","a","b","c","d","e","f">> }

Bytes32Args ==
    { [fn |-> "_string_to_bytes32", text |-> Concat(bs)] :
        bs \in SeqsUpTo(TextBlocks, MaxTextBlocks) }

StringToBytes32 ==
    /\ fn_args.fn = "_string_to_bytes32"
    /\ ~ fn_result.done
    /\ fn_result' = [done |-> TRUE, value |-> _string_to_bytes32(fn_args.text)]
    /\ UNCHANGED fn_args

\* dictionaries of a vertex: any set of the alias keys and of one key that
\* is no alias, each key with a value of its own
DictKeys ==
    { type_keys[i] : i \in 1..Len(type_keys) }
    \cup { guid_keys[i] : i \in 1..Len(guid_keys) }
    \cup { name_keys[i] : i \in 1..Len(name_keys) }
    \cup { "Height" }

ValueUnder(key) == IF key = "Entity" THEN PyNone ELSE PyStr(<<"value of ", key>>)

MetadataArgs ==
    { [fn |-> "extract_ifc_metadata",
       dictionaries |-> [key \in present |-> ValueUnder(key)]] :
          present \in SUBSET DictKeys }

\* TopologicVertex(coordinates=..., dictionaries=...).extract_ifc_metadata()
ExtractIfcMetadata ==
    /\ fn_args.fn = "extract_ifc_metadata"
    /\ ~ fn_result.done
    /\ fn_result' = [done |-> TRUE,
                     value |-> extract_ifc_metadata(
                         TopologicVertex(FreshId("vertex", 0, 1), <<0, 0, 0>>,
                                         fn_args.dictionaries))]
    /\ UNCHANGED fn_args

MaxStatVertices == 3

\* the values a vertex dictionary may hold under IFC_type; None stands for a
\* vertex without dictionary
StatTypes == { PyNone, PyStr(<<>>), PyStr(Chars_IfcWall), PyStr(Chars_IfcSpace) }

StatisticsArgs ==
    { [fn |-> "update_statistics", types |-> types, edge_count |-> m] :
          types \in UNION { [1..n -> StatTypes] : n \in 0..MaxStatVertices },
          m \in 0..1 }

\* the graph of the call: vertices after extract_ifc_metadata, and edges
\* from the first vertex to itself
StatisticsGraph(args) ==
    LET vertices == [i \in 1..Len(args.types) |->
                        extract_ifc_metadata(
                            TopologicVertex(FreshId("vertex", 0, i), <<i * CoordStep, 0, 0>>,
                                IF args.types[i] = PyNone THEN NoDict
                                ELSE [IFC_type |-> args.types[i]]))]
        edges == IF vertices = <<>> THEN <<>>
                 ELSE [i \in 1..args.edge_count |->
                          TopologicEdge(FreshId("edge", 0, i), vertices[1].id,
                                        vertices[1].id, NoDict)]
    IN  [EmptyTopologicGraph EXCEPT !.vertices = vertices, !.edges = edges]

\* TopologicGraph(vertices=..., edges=...).update_statistics()
UpdateStatistics ==
    /\ fn_args.fn = "update_statistics"
    /\ ~ fn_result.done
    /\ fn_result' = [done |-> TRUE, value |-> update_statistics(StatisticsGraph(fn_args))]
    /\ UNCHANGED fn_args

-----------------------------------------------------------------------------
(* IFCComponentToken  (models/blockchain_models.py); "<lf>" stands for the *)
(* line feed character                                                     *)

Chars_kuzu_scheme == <<"k","u","z","u",":","/","/">>
Chars_topologic_sep == <<"/","t","o","p","o","l","o","g","i","c","/">>
Chars_ifc_sep == <<"/","i","f","c","/">>
Chars_http_scheme == <<"h","t","t","p",":","/","/">>
Chars_https_scheme == <<"h","t","t","p","s",":","/","/">>
Chars_element_sep == <<"/","e","l","e","m","e","n","t","/">>
Chars_topologic == <<"t","o","p","o","l","o","g","i","c">>
Chars_ifc == <<"i","f","c">>

\* generate_token_uri(base_url): the http form for a base_url that is
\* truthy, the kuzu form for None (here <<>>) and for the empty string
generate_token_uri(token, base_url) ==
    IF base_url # <<>>
    THEN base_url \o Chars_element_sep \o token.kuzu_element_id
            \o <<"?">> \o Chars_topologic \o <<"=">> \o token.topologic_vertex_id
            \o <<"&">> \o Chars_ifc \o <<"=">> \o token.ifc_guid
    ELSE Chars_kuzu_scheme \o token.kuzu_element_id \o Chars_topologic_sep
            \o token.topologic_vertex_id \o Chars_ifc_sep \o token.ifc_guid

HasPrefix(text, prefix) ==
    Len(text) >= Len(prefix) /\ SubSeq(text, 1, Len(prefix)) = prefix

DropPrefix(text, n) == SubSeq(text, n + 1, Len(text))

\* the longest prefix of text without a character of stops: what the greedy
\* groups [^/]+ and .+ take when a literal or the end follows, and what
\* str.split(sep, 1) and str.find leave before the first separator
RunBefore(text, stops) ==
    LET at == { i \in 1..Len(text) : text[i] \in stops }
    IN  IF at = {} THEN text
        ELSE SubSeq(text, 1, (CHOOSE i \in at : \A j \in at : i <= j) - 1)

\* what follows the first character of stops (nothing if there is none)
RunAfter(text, stops) == DropPrefix(text, Len(RunBefore(text, stops)) + 1)

\* text.split(sep)
RECURSIVE Split(_, _)
Split(text, sep) ==
    IF \A i \in 1..Len(text) : text[i] # sep THEN <<text>>
    ELSE <<RunBefore(text, {sep})>> \o Split(RunAfter(text, {sep}), sep)

UriNotParsed == [raised |-> TRUE, kuzu_id |-> <<>>, topologic_id |-> <<>>, ifc_guid |-> <<>>]

\* urlparse(token_uri).path and .query of a URI that starts with http:// or
\* https://: line feeds are removed, the netloc runs to the first of / ? #,
\* the fragment is cut at the first #, the query at the first ?, and the
\* parameters at the first ; of the last path segment.  (Tabs, carriage
\* returns and brackets in the netloc are not among the characters used.)
url_path_and_query(token_uri) ==
    LET url       == SelectSeq(token_uri, LAMBDA c : c # "<lf>")
        after     == DropPrefix(url, Len(RunBefore(url, {":"})) + 3)
        rest      == DropPrefix(after, Len(RunBefore(after, {"/", "?", "#"})))
        no_frag   == RunBefore(rest, {"#"})
        segments  == Split(RunBefore(no_frag, {"?"}), "/")
        last      == RunBefore(segments[Len(segments)], {";"})
    IN  [path_parts |-> [segments EXCEPT ![Len(segments)] = last],
         query |-> RunAfter(no_frag, {"?"})]

\* name.replace('+', ' ') of parse_qsl (no % escapes among the characters used)
PlusToSpace(text) == [i \in 1..Len(text) |-> IF text[i] = "+" THEN " " ELSE text[i]]

\* parse_qs(query): the (name, value) pairs of the fields that hold a "="
\* and a value that is not blank, in order
parse_qs(query) ==
    LET fields == SelectSeq(Split(query, "&"), LAMBDA f :
                      /\ \E i \in 1..Len(f) : f[i] = "="
                      /\ RunAfter(f, {"="}) # <<>>)
    IN  [i \in 1..Len(fields) |->
            [name |-> PlusToSpace(RunBefore(fields[i], {"="})),
             value |-> PlusToSpace(RunAfter(fields[i], {"="}))]]

\* query_params.get(name, [None])[0]; <<>> stands for None (a value in the
\* query is never empty)
FirstValue(params, name) ==
    LET at == { i \in 1..Len(params) : params[i].name = name }
    IN  IF at = {} THEN <<>>
        ELSE params[CHOOSE i \in at : \A j \in at : i <= j].value

\* parse_token_uri: on a URI of the kuzu scheme re.match of
\* kuzu://([^/]+)/topologic/([^/]+)/ifc/(.+); on an http or https URI the
\* last path segment and the first topologic and ifc query values, all three
\* of them non-empty; in every other case ValueError
parse_token_uri(token_uri) ==
    IF HasPrefix(token_uri, Chars_kuzu_scheme)
    THEN LET rest1 == DropPrefix(token_uri, Len(Chars_kuzu_scheme))
             g1    == RunBefore(rest1, {"/"})
             tail1 == DropPrefix(rest1, Len(g1))
             rest2 == DropPrefix(tail1, Len(Chars_topologic_sep))
             g2    == RunBefore(rest2, {"/"})
             tail2 == DropPrefix(rest2, Len(g2))
             rest3 == DropPrefix(tail2, Len(Chars_ifc_sep))
             g3    == RunBefore(rest3, {"<lf>"})
         IN  IF /\ g1 # <<>> /\ HasPrefix(tail1, Chars_topologic_sep)
                /\ g2 # <<>> /\ HasPrefix(tail2, Chars_ifc_sep)
                /\ g3 # <<>>
             THEN [raised |-> FALSE, kuzu_id |-> g1, topologic_id |-> g2, ifc_guid |-> g3]
             ELSE UriNotParsed
    ELSE IF HasPrefix(token_uri, Chars_http_scheme) \/ HasPrefix(token_uri, Chars_https_scheme)
    THEN LET parsed       == url_path_and_query(token_uri)
             query_params == parse_qs(parsed.query)
             kuzu_id      == parsed.path_parts[Len(parsed.path_parts)]
             topologic_id == FirstValue(query_params, Chars_topologic)
             ifc_guid     == FirstValue(query_params, Chars_ifc)
         IN  IF kuzu_id # <<>> /\ topologic_id # <<>> /\ ifc_guid # <<>>
             THEN [raised |-> FALSE, kuzu_id |-> kuzu_id,
                   topologic_id |-> topologic_id, ifc_guid |-> ifc_guid]
             ELSE UriNotParsed
    ELSE UriNotParsed

MaxUriBlocks == 3

\* identifiers are built from these pieces
UriBlocks == { <<"a">>, <<"a", "/", "b">>, Chars_topologic_sep, Chars_ifc_sep, <<"<lf>">> }

BlockSeqs(n) == UNION { [1..k -> UriBlocks] : k \in 0..n }

\* the base_url arguments: None, and an API endpoint
BaseUrls == { <<>>, Chars_http_scheme \o <<"h">> }

\* the tokens: three identifiers of n pieces in all; validate_ifc_guid
\* rejects an empty ifc_guid
TokenUriArgs(n) ==
    { [fn |-> "parse_token_uri",
       base_url |-> base_url,
       kuzu_element_id |-> Concat(SubSeq(c[1], 1, c[2])),
       topologic_vertex_id |-> Concat(SubSeq(c[1], c[2] + 1, c[3])),
       ifc_guid |-> Concat(SubSeq(c[1], c[3] + 1, Len(c[1])))] :
          c \in { d \in BlockSeqs(n) \X (0..n) \X (0..n) :
                    d[2] <= d[3] /\ d[3] < Len(d[1]) },
          base_url \in BaseUrls }

\* IFCComponentToken.parse_token_uri(token.generate_token_uri(base_url))
ParseGeneratedUri ==
    /\ fn_args.fn = "parse_token_uri"
    /\ ~ fn_result.done
    /\ fn_result' = [done |-> TRUE,
                     value |-> parse_token_uri(generate_token_uri(fn_args, fn_args.base_url))]
    /\ UNCHANGED fn_args

\* a vertex object that lives on: its dictionaries are mutated between calls
\* of extract_ifc_metadata.  The dictionaries hold any of these keys
MutableKeys == { "IFC_type", "type", "guid", "Name" }

VertexDicts == { [key \in present |-> ValueUnder(key)] : present \in SUBSET MutableKeys }

VertexArgs == { [fn |-> "TopologicVertex", dictionaries |-> d] : d \in VertexDicts }

\* the vertex as it is now: as constructed, or as the last step left it
CurrentVertex ==
    IF "value" \in DOMAIN fn_result THEN fn_result.value
    ELSE TopologicVertex(FreshId("vertex", 0, 1), <<0, 0, 0>>, fn_args.dictionaries)

\* vertex.dictionaries is assigned or updated in place; nothing is re-derived
MutateDictionaries ==
    \E d \in VertexDicts :
        /\ fn_args.fn = "TopologicVertex"
        /\ d # fn_args.dictionaries
        /\ fn_args' = [fn_args EXCEPT !.dictionaries = d]
        /\ fn_result' = [done |-> FALSE, value |-> [CurrentVertex EXCEPT !.dictionaries = d]]

\* vertex.extract_ifc_metadata() on the vertex as it is now
ExtractOnVertex ==
    /\ fn_args.fn = "TopologicVertex"
    /\ fn_result' = [done |-> TRUE, value |-> extract_ifc_metadata(CurrentVertex)]
    /\ UNCHANGED fn_args

\* identifiers as the store issues them, str(uuid.uuid4()): 36 characters;
\* these share their first 32.  Shorter identifiers are listed with them
Chars_uuid_head ==
    <<"0","1","2","3","4","5","6","7","-","8","9","a","b","-","4","c","d","e","-",
      "8","f","0","1","-","2","3","4","5","6","7","8","9">>

Identifiers ==
    { head \o tail : head \in { <<>>, Chars_uuid_head },
                     tail \in { <<>>, <<"a">>, <<"b">>, <<"<e-acute>">>,
                                <<"a","b","c","d">>, <<"a","b","c","e">> } }

IdentifierArgs ==
    { [fn |-> "identifiers", first |-> a, second |-> b] : a \in Identifiers, b \in Identifiers }

\* the node exported for an element of file id, in building id
NodeUnder(id) ==
    _convert_vertex_to_graph_node(
        get_vertices_by_file(<<StoredRow(StoreCatalog[2], PyStr(id))>>, id)[1], id)

\* _string_to_bytes32 on two identifiers, and the nodes exported under them
EncodeIdentifiers ==
    /\ fn_args.fn = "identifiers"
    /\ ~ fn_result.done
    /\ fn_result' = [done |-> TRUE,
                     value |-> [first |-> _string_to_bytes32(fn_args.first),
                                second |-> _string_to_bytes32(fn_args.second),
                                first_node |-> NodeUnder(fn_args.first),
                                second_node |-> NodeUnder(fn_args.second)]]
    /\ UNCHANGED fn_args

\* the calls that are made, the tokens having up to n pieces
FnArgs(n) == TokenTypeArgs \cup Bytes32Args \cup MetadataArgs \cup StatisticsArgs \cup IdentifierArgs
                 \cup TokenUriArgs(n) \cup VertexArgs

InitFn ==
    /\ pc = "idle"
    /\ file_path = <<>>
    /\ file_exists = FALSE
    /\ cfg_types = <<>>
    /\ context = NewContext(<<>>)
    /\ requests = <<>>
    /\ outcomes = <<>>
    /\ fb_graph = NoGraph
    /\ returned = NotReturned
    /\ ValIdle
    /\ StoreIdle
    /\ ExpIdle
    /\ UiIdle
    /\ fn_args \in FnArgs(MaxUriBlocks)
    /\ fn_result = NotCalled
    /\ last_export = NoEarlierExport

NextFn ==
    \/ DetermineTokenType /\ UNCHANGED <<callVars, procVars, valVars, storeVars, expVars, uiVars>>
    \/ StringToBytes32 /\ UNCHANGED <<callVars, procVars, valVars, storeVars, expVars, uiVars>>
    \/ ExtractIfcMetadata /\ UNCHANGED <<callVars, procVars, valVars, storeVars, expVars, uiVars>>
    \/ UpdateStatistics /\ UNCHANGED <<callVars, procVars, valVars, storeVars, expVars, uiVars>>
    \/ ParseGeneratedUri /\ UNCHANGED <<callVars, procVars, valVars, storeVars, expVars, uiVars>>
    \/ EncodeIdentifiers /\ UNCHANGED <<callVars, procVars, valVars, storeVars, expVars, uiVars>>
    \/ MutateDictionaries /\ UNCHANGED <<callVars, procVars, valVars, storeVars, expVars, uiVars>>
    \/ ExtractOnVertex /\ UNCHANGED <<callVars, procVars, valVars, storeVars, expVars, uiVars>>

SpecFn == InitFn /\ [][NextFn]_vars

-----------------------------------------------------------------------------
(* Properties of the pure functions *)

\* one of the words of the type name is w, letter case apart
HasWord(words, w) == \E i \in 1..Len(words) : Lower(words[i]) = w

\* the ordered rule, over the words the type name is made of
RuleOnWords(words) ==
    IF HasWord(words, <<"p","r","o","j","e","c","t">>) THEN PROJECT
    ELSE IF HasWord(words, <<"b","u","i","l","d","i","n","g">>) /\ ~ HasWord(words, <<"s","t","o","r","e","y">>) THEN BUILDING
    ELSE IF HasWord(words, <<"s","t","o","r","e","y">>) \/ HasWord(words, <<"f","l","o","o","r">>) THEN STOREY
    ELSE IF \/ HasWord(words, <<"s","p","a","c","e">>)
            \/ HasWord(words, <<"r","o","o","m">>)
            \/ HasWord(words, <<"z","o","n","e">>) THEN SPACE
    ELSE COMPONENT

\* C12: _determine_token_type returns for every type string exactly one of
\* the five token types, the one the ordered rule project, building without
\* storey, storey or floor, space or room or zone, else component gives; a
\* name with both "building" and "storey" is STOREY, the empty name COMPONENT.
C12_TokenTypeRule ==
    (fn_args.fn = "_determine_token_type" /\ fn_result.done) =>
        /\ fn_result.value \in {PROJECT, BUILDING, STOREY, SPACE, COMPONENT}
        /\ fn_result.value = RuleOnWords(fn_args.words)
        /\ (HasWord(fn_args.words, <<"b","u","i","l","d","i","n","g">>) /\ HasWord(fn_args.words, <<"s","t","o","r","e","y">>)
             /\ ~ HasWord(fn_args.words, <<"p","r","o","j","e","c","t">>)) => fn_result.value = STOREY
        /\ fn_args.ifc_type = <<>> => fn_result.value = COMPONENT

\* IfcBuildingStorey was classified, as STOREY
C12_Witness ==
    /\ fn_args.fn = "_determine_token_type"
    /\ fn_args.ifc_type = <<"I","f","c","B","u","i","l","d","i","n","g","S","t","o","r","e","y">>
    /\ fn_result.done
    /\ fn_result.value = STOREY

\* the value of a hex digit
HexValue(d) == (CHOOSE k \in 1..16 : HexDigits[k] = d) - 1

\* the byte written by the k-th pair of hex digits after the prefix
ByteAt(hex, k) == 16 * HexValue(hex[2 * k + 1]) + HexValue(hex[2 * k + 2])

\* C13: _string_to_bytes32 returns 66 characters, "0x" and 64 hex digits,
\* which spell the first 32 bytes of the UTF-8 encoding of the text
\* followed by zero bytes; the empty text gives 64 zeros.
C13_Bytes32Encoding ==
    (fn_args.fn = "_string_to_bytes32" /\ fn_result.done) =>
        LET hex   == fn_result.value
            bytes == Utf8(fn_args.text)
        IN  /\ Len(hex) = 66
            /\ SubSeq(hex, 1, 2) = <<"0", "x">>
            /\ \A i \in 3..Len(hex) : \E k \in 1..16 : HexDigits[k] = hex[i]
            /\ Len(hex) = 66 =>
                  \A k \in 1..32 :
                      ByteAt(hex, k) = IF k <= Len(bytes) THEN bytes[k] ELSE 0
            /\ fn_args.text = <<>> => \A i \in 3..Len(hex) : hex[i] = "0"

\* a text of 33 bytes ending in a two-byte character was cut inside it
C13_Witness ==
    /\ fn_args.fn = "_string_to_bytes32"
    /\ fn_result.done
    /\ Len(Utf8(fn_args.text)) = 33
    /\ fn_args.text[Len(fn_args.text)] = "<e-acute>"
    /\ SubSeq(fn_result.value, 65, 66) = <<"c", "3">>

\* the stored ifc_type of the row equals a filter entry, letter case apart
MatchesFilter(row, include_types) ==
    \E t \in 1..Len(include_types) : Lower(include_types[t]) = Lower(row.ifc_type.s)

\* C14 (as claimed): with a non-empty type filter the exported nodes are
\* exactly the stored elements of the file whose stored ifc_type equals a
\* filter entry when both are compared without regard to case, in store
\* order.
C14_FilterIgnoresCase ==
    (exp_args.called /\ exp_args.include_types # <<>>) =>
        LET Match(row) == MatchesFilter(row, exp_args.include_types)
            kept == SelectSeq(ElementRows(store_elems, store_building), Match)
        IN  ExportedIds = [k \in 1..Len(kept) |-> kept[k].id]

\* the fields the minting contract fills in are at their initial values
StartsUnminted(node) ==
    /\ node.parentTokenId = PyInt(0)
    /\ node.childTokenIds = PyList(<<>>)
    /\ node.mintedAt = PyInt(0)
    /\ node.exists = PyBool(FALSE)

\* C15: every node of an export has parentTokenId = 0, childTokenIds = [],
\* mintedAt = 0 and exists = False, whatever the store holds, the elements
\* whose rows carry a synced token id included
C15_NodesStartUnminted ==
    /\ \A i \in 1..Len(ui.nodes) : StartsUnminted(ui.nodes[i])
    /\ \A i \in 1..Len(mint_data.nodes) : StartsUnminted(mint_data.nodes[i])

\* the preview has exported three elements, two of them synced with token ids
C15_Witness ==
    /\ Len(ui.nodes) = 3
    /\ Cardinality(store_tokens) = 2

\* C16: when the store raises during an export (while the elements are
\* fetched or while the relationships are queried), the export fails with
\* the store's error, so what the caller gets differs from what a successful
\* export of a file without elements, or of these elements without
\* relationships, returns
C16_StoreFailureReported ==
    (exp_args.called /\ exp_args.fault # NoFault) =>
        /\ exp_result # export_building_for_minting(<<>>, <<>>, FileId,
                            exp_args.include_types, NoFault)
        /\ exp_result # export_building_for_minting(ElementRows(store_elems, store_building), <<>>,
                            FileId, exp_args.include_types, NoFault)

\* a vertex as a strategy without dictionaries produces it
NoMetadata(v) == v.ifc_type = PyNone /\ v.ifc_guid = PyNone /\ v.ifc_name = PyNone

\* C17: for a stored graph whose vertices all have ifc_type, ifc_guid and
\* ifc_name None, export followed by validate_export_data does not raise and
\* returns invalid with, for each exported node, an error naming the node's
\* index for each of ifcGuid, ifcType and name
C17_NoMetadataAllReported ==
    (/\ exp_args.called
     /\ exp_args.fault = NoFault
     /\ exp_args.include_types = <<>>
     /\ store_elems # {}
     /\ \A e \in store_elems : NoMetadata(StoreCatalog[e])) =>
        LET r == validate_export_data(exp_result.nodes, exp_result.edges)
        IN  /\ ~ r.raised
            /\ ~ r.valid
            /\ \A i \in 1..Len(exp_result.nodes) :
                 \A field \in {"ifcGuid", "ifcType", "name"} :
                    \E k \in 1..Len(r.errors) :
                        r.errors[k] = Err("Missing required field", i - 1, field, <<>>)

\* the relationship rows both of whose elements are among the exported nodes
ExportedRows(rows, nodes) ==
    SelectSeq(rows, LAMBDA row :
        /\ \E i \in 1..Len(nodes) : nodes[i].kuzuElementId = row.from_id
        /\ \E i \in 1..Len(nodes) : nodes[i].kuzuElementId = row.to_id)

\* C18: every exported edge carries fromKuzuId and toKuzuId, the stored ids
\* of the relationship's source and target elements, with its connectionType
\* and bidirectional = True
C18_EdgesCarryKuzuIds ==
    (exp_args.called /\ exp_args.fault = NoFault) =>
        LET rows == ExportedRows(store_rels, exp_result.nodes)
        IN  /\ Len(exp_result.edges) = Len(rows)
            /\ \A i \in 1..Len(exp_result.edges) :
                 LET edge == exp_result.edges[i]
                 IN  /\ Get(edge, "fromKuzuId") = rows[i].from_id
                     /\ Get(edge, "toKuzuId") = rows[i].to_id
                     /\ Get(edge, "connectionType")
                          = PyOr(rows[i].connection_type,
                                 PyStr(<<"t","o","p","o","l","o","g","i","c","a","l">>))
                     /\ Get(edge, "bidirectional") = PyBool(TRUE)

\* the ids of a graph's vertices
VertexIds(g) == { g.vertices[i].id : i \in 1..Len(g.vertices) }

EdgesJoinVertices(g) ==
    \A i \in 1..Len(g.edges) :
        /\ g.edges[i].start_vertex_id \in VertexIds(g)
        /\ g.edges[i].end_vertex_id \in VertexIds(g)

\* the engine edges of h both of whose endpoints lie on a vertex of g
MatchedEngineEdges(h, g) ==
    { i \in 1..Len(h.edges) :
        /\ \E v \in 1..Len(g.vertices) :
              _coordinates_match(g.vertices[v].coordinates, h.edges[i].a)
        /\ \E v \in 1..Len(g.vertices) :
              _coordinates_match(g.vertices[v].coordinates, h.edges[i].b) }

RaisedAttempts == { i \in 1..Len(outcomes) : outcomes[i].kind = "raised" }

\* C19: in every graph the extraction returns, each edge's start_vertex_id
\* and end_vertex_id are ids of vertices of that graph; an engine edge with an
\* endpoint on no extracted vertex gives no edge and no error, and the
\* strategy that met it still returns its graph
C19_EdgesJoinGraphVertices ==
    /\ EdgesJoinVertices(fb_graph.g)
    /\ EdgesJoinVertices(returned.graph)
    /\ (pc = "finish" /\ fb_graph.some) =>
          LET h == context.original_topologic_graph.h
          IN  /\ outcomes[Len(outcomes)].kind = "returned"
              /\ Len(context.error_messages) = Cardinality(RaisedAttempts)
              /\ h.fault # "edges" =>
                    Len(fb_graph.g.edges) = Cardinality(MatchedEngineEdges(h, fb_graph.g))
    /\ (pc = "done" /\ returned.result.success) => returned.graph = fb_graph.g

\* a successful run on an engine graph of two vertices whose first edge
\* starts on no vertex: the graph has the one edge that joins the vertices
C19_Witness ==
    /\ pc = "done"
    /\ returned.result.success
    /\ Len(returned.handle.h.edges) = 2
    /\ Cardinality(MatchedEngineEdges(returned.handle.h, returned.graph)) = 1
    /\ Len(returned.graph.vertices) = 2
    /\ Len(returned.graph.edges) = 1

\* value is the one stored under the first key of keys present in dictionaries
IsFirstPresent(dictionaries, keys, value) ==
    \E i \in 1..Len(keys) :
        /\ keys[i] \in DOMAIN dictionaries
        /\ \A j \in 1..(i - 1) : keys[j] \notin DOMAIN dictionaries
        /\ value = dictionaries[keys[i]]

AnyPresent(dictionaries, keys) ==
    \E i \in 1..Len(keys) : keys[i] \in DOMAIN dictionaries

\* C20: on a fresh vertex, extract_ifc_metadata sets each of ifc_type,
\* ifc_guid and ifc_name to the value under the first key of the field's
\* alias list that dictionaries holds, whatever later aliases it holds too
C20_FirstAliasWins ==
    (fn_args.fn = "extract_ifc_metadata" /\ fn_result.done) =>
        LET d == fn_args.dictionaries
            v == fn_result.value
        IN  /\ AnyPresent(d, type_keys) => IsFirstPresent(d, type_keys, v.ifc_type)
            /\ AnyPresent(d, guid_keys) => IsFirstPresent(d, guid_keys, v.ifc_guid)
            /\ AnyPresent(d, name_keys) => IsFirstPresent(d, name_keys, v.ifc_name)

\* dictionaries without the first type alias and with several later aliases
\* of every field
C20_Witness ==
    /\ fn_args.fn = "extract_ifc_metadata"
    /\ fn_result.done
    /\ DOMAIN fn_args.dictionaries =
          {"ifc_type", "type", "Entity", "IFCGuid", "guid", "name", "IFC_name", "Height"}
    /\ fn_result.value.ifc_type = ValueUnder("ifc_type")
    /\ fn_result.value.ifc_guid = ValueUnder("IFCGuid")
    /\ fn_result.value.ifc_name = ValueUnder("name")

\* C21: after extract_ifc_metadata, ifc_type is None exactly when none of
\* the type-alias keys is present in dictionaries, maps holding a null value
\* under an alias key included
C21_TypeNoneIffNoAlias ==
    (fn_args.fn = "extract_ifc_metadata" /\ fn_result.done) =>
        (fn_result.value.ifc_type = PyNone
            <=> ~ AnyPresent(fn_args.dictionaries, type_keys))

RECURSIVE SumOfCounts(_)
SumOfCounts(counts) ==
    IF counts = <<>> THEN 0 ELSE Head(counts).count + SumOfCounts(Tail(counts))

VerticesOfType(g, ty) == { j \in 1..Len(g.vertices) : g.vertices[j].ifc_type = ty }

\* C22: after update_statistics, vertex_count and edge_count are the numbers
\* of vertices and edges, the values of ifc_type_counts sum to the number of
\* vertices whose ifc_type is not None (the empty string being non-null),
\* and each key's count is the number of vertices of that type
C22_StatisticsCountNonNull ==
    (fn_args.fn = "update_statistics" /\ fn_result.done) =>
        LET g == fn_result.value
        IN  /\ g.vertex_count = Len(g.vertices)
            /\ g.edge_count = Len(g.edges)
            /\ SumOfCounts(g.ifc_type_counts)
                 = Cardinality({ j \in 1..Len(g.vertices) : g.vertices[j].ifc_type # PyNone })
            /\ \A i \in 1..Len(g.ifc_type_counts) :
                 g.ifc_type_counts[i].count
                    = Cardinality(VerticesOfType(g, g.ifc_type_counts[i].key))

\* C23: for every token, parse_token_uri(generate_token_uri()) returns the
\* token's kuzu_element_id, topologic_vertex_id and ifc_guid, identifiers
\* holding "/" or the substrings "/topologic/" and "/ifc/" included
C23_TokenUriRoundTrip ==
    (fn_args.fn = "parse_token_uri" /\ fn_args.base_url = <<>> /\ fn_result.done) =>
        /\ ~ fn_result.value.raised
        /\ fn_result.value.kuzu_id = fn_args.kuzu_element_id
        /\ fn_result.value.topologic_id = fn_args.topologic_vertex_id
        /\ fn_result.value.ifc_guid = fn_args.ifc_guid

\* C24: whenever traditional_with_types runs, its engine request carries the
\* hard-coded default type set and dictionary transfer, whatever type filter
\* the caller configured
C24_TraditionalUsesDefaultTypes ==
    (Len(outcomes) = 3 /\ outcomes[3].name = "traditional_with_types") =>
        requests[Len(requests)] = Request(TypesArg(default_ifc_types), TRUE)

LastExportedIds ==
    [i \in 1..Len(last_export.result.nodes) |-> last_export.result.nodes[i].kuzuElementId]

\* the latest export, made on the store as it is now, has a node for each
\* stored element that passes its filter, in store order and with the
\* element's id and guid, and an edge for each stored relationship between
\* two of them, in store order
FreshFromStore ==
    (last_export.some /\ ~ last_export.stale) =>
        LET Pass(row) == PassesFilter(row, last_export.include_types)
            elements == SelectSeq(ElementRows(store_elems, store_building), Pass)
            nodes == last_export.result.nodes
            edges == last_export.result.edges
            kept == SurvivingRels(store_rels, LastExportedIds)
        IN  /\ Len(nodes) = Len(elements)
            /\ \A k \in 1..Len(nodes) :
                  /\ nodes[k].kuzuElementId = elements[k].id
                  /\ nodes[k].ifcGuid = elements[k].ifc_guid
            /\ Len(edges) = Len(kept)
            /\ \A k \in 1..Len(edges) :
                  /\ LastExportedIds[edges[k].fromIndex.n + 1] = kept[k].from_id
                  /\ LastExportedIds[edges[k].toIndex.n + 1] = kept[k].to_id

\* an export that follows another with the same arguments, the store
\* unchanged in between, returns an equal result
RepeatableExport ==
    (/\ last_export.some /\ ~ last_export.stale
     /\ last_export'.some /\ ~ last_export'.stale
     /\ last_export'.include_types = last_export.include_types)
        => last_export'.result = last_export.result

\* C25 (as claimed): each export returns exactly the nodes and edges
\* derived from the elements and relationships stored at that moment, and
\* two exports with no store change in between return equal results;
\* nothing of an earlier export is reused
C25_ExportIsPureFunctionOfStore == [] FreshFromStore /\ [][RepeatableExport]_vars

\* the error trail has an entry that names the strategy
InErrorTrail(strategy_name) ==
    \E k \in 1..Len(context.error_messages) :
        /\ context.error_messages[k] # <<>>
        /\ context.error_messages[k][1] = strategy_name

\* C26: when earlier strategies return a graph with zero vertices, without
\* raising, and a later strategy succeeds, each of these earlier strategies
\* has an entry naming it in the context's error_messages
C26_EmptyGraphsInErrorTrail ==
    \A i \in 1..Len(outcomes), j \in 1..Len(outcomes) :
        (/\ i < j
         /\ outcomes[i].kind = "returned" /\ outcomes[i].nverts = 0
         /\ outcomes[j].kind = "returned" /\ outcomes[j].nverts > 0)
            => InErrorTrail(outcomes[i].name)

\* C27: direct_with_dictionaries makes exactly one engine request, with the
\* caller's type filter and dictionary transfer; a graph whose
\* processing_method is "direct_with_dictionaries" never comes from a request
\* made without the caller's filter
C27_DirectMakesOneRequest ==
    /\ Len(outcomes) = 1 =>
          requests = <<Request(TypesArg(cfg_types), TRUE)>>
    /\ (fb_graph.some /\ fb_graph.g.processing_method = "direct_with_dictionaries") =>
          requests[Len(requests)] = Request(TypesArg(cfg_types), TRUE)

\* the field holds the value under the first alias present, None if none is
DerivedNow(dictionaries, keys, value) ==
    IF AnyPresent(dictionaries, keys) THEN IsFirstPresent(dictionaries, keys, value)
    ELSE value = PyNone

ConsistentAfterExtract ==
    (fn_args.fn = "TopologicVertex" /\ fn_result.done) =>
        LET v == fn_result.value
        IN  /\ v.dictionaries = fn_args.dictionaries
            /\ DerivedNow(v.dictionaries, type_keys, v.ifc_type)
            /\ DerivedNow(v.dictionaries, guid_keys, v.ifc_guid)
            /\ DerivedNow(v.dictionaries, name_keys, v.ifc_name)

\* a second extraction, with no mutation in between, changes nothing
ExtractTwiceSame ==
    (fn_args.fn = "TopologicVertex" /\ fn_result.done /\ fn_result'.done) =>
        fn_result' = fn_result

\* C28: after any mutations of a vertex's dictionaries and extractions, right
\* after each extract_ifc_metadata call every derived field equals the value
\* under the first alias now present and is None when no alias is present
\* now; two extractions in a row leave the fields unchanged
C28_DerivedFieldsFollowDictionaries ==
    [] ConsistentAfterExtract /\ [][ExtractTwiceSame]_vars

\* the point differs from the vertex by less than 1e-6 on each axis
WithinTolerance(vertex, point) ==
    /\ vertex.coordinates[1] - point[1] \in (1 - CoordTolerance)..(CoordTolerance - 1)
    /\ vertex.coordinates[2] - point[2] \in (1 - CoordTolerance)..(CoordTolerance - 1)
    /\ vertex.coordinates[3] - point[3] \in (1 - CoordTolerance)..(CoordTolerance - 1)

Candidates(point, vertices) ==
    { i \in 1..Len(vertices) : WithinTolerance(vertices[i], point) }

Lowest(S) == CHOOSE i \in S : \A j \in S : i <= j

\* the engine edges both of whose endpoints have a candidate, in engine order
ResolvableEdges(h, vertices) ==
    SelectSeq(h.edges, LAMBDA e :
        Candidates(e.a, vertices) # {} /\ Candidates(e.b, vertices) # {})

\* C29: an engine endpoint is resolved to the lowest-index extracted vertex
\* within 1e-6 of it on each axis separately, so an edge at the later of two
\* vertices that lie within the tolerance is attached to the earlier one; an
\* endpoint without such a vertex is unresolved and its edge is left out
C29_EndpointsResolveToFirstMatch ==
    (fb_graph.some /\ context.original_topologic_graph.h.fault # "edges") =>
        LET g     == fb_graph.g
            kept  == ResolvableEdges(context.original_topologic_graph.h, g.vertices)
        IN  /\ Len(g.edges) = Len(kept)
            /\ \A i \in 1..Len(g.edges) :
                 /\ g.edges[i].start_vertex_id
                      = g.vertices[Lowest(Candidates(kept[i].a, g.vertices))].id
                 /\ g.edges[i].end_vertex_id
                      = g.vertices[Lowest(Candidates(kept[i].b, g.vertices))].id

\* a returned graph whose last two vertices lie within the tolerance on each
\* axis but further apart than 1e-6, with the edge of the later vertex
\* attached to the earlier one
C29_Witness ==
    /\ pc = "done"
    /\ returned.result.success
    /\ Len(returned.graph.vertices) = 3
    /\ Len(returned.graph.edges) = 2
    /\ returned.handle.h.edges[2].a = returned.graph.vertices[3].coordinates
    /\ WithinTolerance(returned.graph.vertices[2], returned.graph.vertices[3].coordinates)
    /\ returned.graph.edges[2].start_vertex_id = returned.graph.vertices[2].id
    /\ returned.graph.edges[2].end_vertex_id = returned.graph.vertices[1].id

\* the UTF-8 encoding of the text, cut to 32 bytes and filled up with zeros
Bytes32Of(text) ==
    LET bytes == Utf8(text)
    IN  [k \in 1..32 |-> IF k <= Len(bytes) THEN bytes[k] ELSE 0]

\* C30: two identifiers get the same bytes32 encoding exactly when their
\* UTF-8 encodings, cut to 32 bytes and zero-padded, are equal; so two
\* distinct 36-character ids that agree on their first 32 characters are
\* exported with identical fileId and buildingId
C30_EncodingEqualIffPrefixEqual ==
    (fn_args.fn = "identifiers" /\ fn_result.done) =>
        LET r == fn_result.value
        IN  /\ r.first = r.second <=> Bytes32Of(fn_args.first) = Bytes32Of(fn_args.second)
            /\ r.first_node.fileId = PyStr(r.first)
            /\ r.first_node.buildingId = PyStr(r.first)
            /\ r.second_node.fileId = PyStr(r.second)
            /\ r.second_node.buildingId = PyStr(r.second)

\* two distinct 36-character ids with the same first 32 characters, exported
\* with the same fileId and buildingId
C30_Witness ==
    /\ fn_args.fn = "identifiers"
    /\ fn_result.done
    /\ Len(fn_args.first) = 36
    /\ Len(fn_args.second) = 36
    /\ fn_args.first # fn_args.second
    /\ fn_result.value.first_node.fileId = fn_result.value.second_node.fileId
    /\ fn_result.value.first_node.buildingId = fn_result.value.second_node.buildingId

=============================================================================
